---- MODULE Spec2Model ----
(***************************************************************************)
(* Time tracking of claude-terminal: the per-project and global tracking   *)
(* state machine (timeTracking.state.js), its boundary detectors (idle     *)
(* timeout, output grace, sleep/wake heartbeat, midnight split,            *)
(* checkpoint) and the monthly archive store (ArchiveService.js).          *)
(*                                                                         *)
(* Time is in milliseconds, as Date.now() gives it, counted from a model   *)
(* epoch that is local 00:00 of Tuesday 17 February 2026: days -17 to -48  *)
(* lie in January, days -16 to 11 in February, day 12 onwards in March,    *)
(* and day 13 is a Monday.  Local time has no zone offset.  A timestamp    *)
(* that JavaScript holds as null is 0 here (both are falsy where the code  *)
(* tests them); a date string that is null is NoDate.                      *)
(***************************************************************************)
EXTENDS Integers, Sequences, FiniteSets, TLC

\* ---------------------------------------------------------------- constants
IDLE_TIMEOUT == 15 * 60 * 1000
OUTPUT_IDLE_TIMEOUT == 2 * 60 * 1000
SLEEP_GAP_THRESHOLD == 2 * 60 * 1000
CHECKPOINT_INTERVAL == 5 * 60 * 1000
HEARTBEAT_INTERVAL == 30 * 1000
MIDNIGHT_CHECK_INTERVAL == 30 * 1000
MIN_DURATION == 1000
RESCHEDULE_EPSILON == 100
DayMs == 24 * 60 * 60 * 1000

Projects == {"A", "B"}
NoDate == -1

\* ------------------------------------------------------------------ bounds
MaxOps == 3
MaxSleeps == 1
MaxTicks == 3
MaxConcOps == 4
MaxConcSteps == 1
MaxConcTicks == 1
MaxIdleOps == 2
MaxIdleTicks == 33
MaxAppends == 2
MaxInputLen == 2
MaxServiceOps == 4
MaxPreInitOps == 4
MaxPreInitTicks == 2
MaxStoredLen == 2
MaxStartupOps == 3
MaxStartupTicks == 3
MaxShutdownOps == 3
MaxShutdownSleeps == 1
MaxShutdownTicks == 1
MaxLiveOps == 1
MaxLiveTicks == 37
MaxTwoOps == 2
MaxTwoTicks == 31
MaxTrackedOps == 2
MaxTrackedSleeps == 1
MaxTrackedTicks == 1
MaxCrashOps == 3
MaxCrashTicks == 2
MaxWriteOps == 3
MaxGlobalOps == 4
MaxGlobalSleeps == 1
MaxGlobalTicks == 1
MaxPairOps == 2
MaxPairSleeps == 1
MaxPairTicks == 1
MaxEveningOps == 2
MaxEveningTicks == 32
MaxPassLen == 2
MaxPassOps == 2
MaxPassTicks == 2
SubSecondStep == 500
SleepDuration == 16 * 60 * 1000
LongSleepDuration == DayMs + SleepDuration

\* ---------------------------------------------------------------- calendar
\* time 0 is the local midnight that begins Tuesday 17 February 2026: the
\* months before and after February 2026 lie within the integers of the model
Epoch == [dayOfMonth |-> 17, monthLength |-> 28, previousLength |-> 31, dayOfWeek |-> 2,
          month |-> 2026 * 12 + 1]

EpochMonth == Epoch.month

\* getTodayString: the local calendar day of a timestamp, as a day index
DayOf(t) == t \div DayMs

\* new Date(); setHours(0, 0, 0, 0); getTime()
MidnightOf(t) == (t \div DayMs) * DayMs

\* getFullYear() * 12 + getMonth() of a timestamp
MonthOf(t) ==
  LET day == Epoch.dayOfMonth + DayOf(t)
  IN IF day <= 0 THEN EpochMonth - 1
     ELSE IF day <= Epoch.monthLength THEN EpochMonth ELSE EpochMonth + 1

\* the midnight that begins the last day of the epoch's month
LastDay == (Epoch.monthLength - Epoch.dayOfMonth) * DayMs

\* the midnight that begins the last day of the month before the epoch's
PreviousLastDay == (0 - Epoch.dayOfMonth) * DayMs

\* getMonthString
getMonthString(t) == MonthOf(t)

\* getWeekStartString: the day index of the Monday of the week of t
getWeekStartString(t) ==
  LET day == (Epoch.dayOfWeek + DayOf(t)) % 7
      diff == IF day = 0 THEN 6 ELSE day - 1
  IN DayOf(t) - diff

Months == (EpochMonth - 3)..(EpochMonth + 1)

VARIABLES
  now,                  \* Date.now()
  initialized,          \* projectsStateRef / saveProjectsRef are set
  trackingState,        \* activeSessions, globalSessionStartTime, globalLastActivityTime, globalIsIdle
  idleTimers,           \* projectId -> deadline of the pending idle timeout (0: none pending)
  lastOutputTimes,      \* projectId -> timestamp of last terminal output (0: absent)
  globalLastOutputTime,
  globalIdleTimer,      \* deadline of the pending global idle timeout (0: none)
  lastHeartbeat,
  heartbeatTimer,       \* deadline of the next heartbeat tick (0: not running)
  midnightCheckTimer,   \* deadline of the next midnight check (0: not running)
  checkpointTimer,      \* deadline of the next checkpoint (0: not running)
  lastKnownDate,
  globalTimesCache,     \* the session totals getGlobalTimes keeps between calls
  projectsState,        \* the live snapshot: projects' timeTracking and globalTimeTracking
  archiveFiles,         \* month -> content of the month's archive file
  archiveCache,         \* ArchiveService's cache: entries in insertion order
  tempFiles,            \* months whose "<file>.tmp" exists on disk
  immediateSaves,       \* the snapshots written by saveProjectsImmediateRef(), in order
  loadedState,          \* the projects file as the start-up read it, kept where the process restarts
  outcome,              \* what the last ArchiveService call returned or threw
  lastCall,             \* the arguments of the last ArchiveService call
  nextId,               \* generateSessionId: a fresh id per call
  lastOp,               \* the handler that ran last and its argument
  sleepGap,             \* the system sleep observed so far: <<went to sleep, woke up>>
  opsLeft, sleepsLeft, stepsLeft, ticksLeft   \* what the environment may still do

vars == <<now, initialized, trackingState, idleTimers, lastOutputTimes, globalLastOutputTime,
          globalIdleTimer, lastHeartbeat, heartbeatTimer, midnightCheckTimer, checkpointTimer,
          lastKnownDate, projectsState, archiveFiles, nextId, lastOp, sleepGap,
          opsLeft, sleepsLeft, stepsLeft, ticksLeft,
          archiveCache, tempFiles, outcome, lastCall, immediateSaves, loadedState,
          globalTimesCache>>

\* the record of the last ArchiveService call, which the tracker's handlers leave
\* alone, the immediate saves, which only saveAllActiveSessions extends, and the
\* projects file as read at start-up
serviceVars == <<outcome, lastCall, immediateSaves, loadedState>>

\* ------------------------------------------------------------ archive store
\* A file is missing, empty, not JSON ("corrupt") or the JSON text of an archive
\* object; raw tells which.  The value null that the service passes around is
\* NoFile (exists is FALSE).
NoFile == [exists |-> FALSE, raw |-> "missing", globalSessions |-> <<>>, projectSessions |-> <<>>]

EmptyFile == [exists |-> FALSE, raw |-> "empty", globalSessions |-> <<>>, projectSessions |-> <<>>]

CorruptFile == [exists |-> FALSE, raw |-> "corrupt", globalSessions |-> <<>>, projectSessions |-> <<>>]

createEmptyArchive == [exists |-> TRUE, raw |-> "json", globalSessions |-> <<>>, projectSessions |-> <<>>]

\* a reader that takes an empty or unparseable file for an archive without sessions
readArchiveFromDiskLenient(files, m) ==
  IF files[m].raw = "json" THEN files[m]
  ELSE IF files[m].raw = "missing" THEN NoFile ELSE createEmptyArchive

\* readArchiveFromDisk: null for a missing file (existsSync), for an empty one
\* (!content.trim()) and for one that JSON.parse rejects (the catch)
readArchiveFromDisk(files, m) ==
  IF files[m].raw = "json" THEN files[m] ELSE NoFile

SessionIds(list) == {list[i].id : i \in 1..Len(list)}

\* the loop "for (session of input) if (!existingIds.has(session.id)) push":
\* existingIds is computed once, before the loop, from the stored list
MergeSessions(stored, input) ==
  LET existingIds == SessionIds(stored)
  IN stored \o SelectSeq(input, LAMBDA s : s.id \notin existingIds)

\* appendToArchive(year, month, globalSessions, projectSessionsMap); the map is
\* a function from some projects to their session lists
appendToArchive(files, m, globalSessions, projectSessionsMap) ==
  LET read == readArchiveFromDisk(files, m)
      archive == IF read.exists THEN read ELSE createEmptyArchive
      newGlobal == IF Len(globalSessions) > 0
                   THEN MergeSessions(archive.globalSessions, globalSessions)
                   ELSE archive.globalSessions
      pids == DOMAIN archive.projectSessions \cup DOMAIN projectSessionsMap
      newProjects ==
        [p \in pids |->
           LET old == IF p \in DOMAIN archive.projectSessions
                      THEN archive.projectSessions[p] ELSE <<>>
           IN IF p \in DOMAIN projectSessionsMap
              THEN MergeSessions(old, projectSessionsMap[p])
              ELSE old]
  IN [files EXCEPT ![m] = [exists |-> TRUE, raw |-> "json", globalSessions |-> newGlobal,
                           projectSessions |-> newProjects]]

\* MAX_CACHE_SIZE: the number of months the cache may hold
MAX_CACHE_SIZE == 3

\* archiveCache.has(key)
CacheHas(cache, m) == \E i \in 1..Len(cache) : cache[i].key = m

\* archiveCache.get(key).data
CacheData(cache, m) == cache[CHOOSE i \in 1..Len(cache) : cache[i].key = m].data

\* an eviction of the entry inserted last
NewestIndex(cache) == Len(cache)

\* the eviction loop of loadArchive: the first entry, in insertion order, whose
\* loadedAt no other entry is below
OldestIndex(cache) ==
  CHOOSE i \in 1..Len(cache) :
    /\ \A j \in 1..Len(cache) : cache[i].loadedAt <= cache[j].loadedAt
    /\ \A j \in 1..(i - 1) : cache[j].loadedAt > cache[i].loadedAt

RemoveAt(cache, i) == SubSeq(cache, 1, i - 1) \o SubSeq(cache, i + 1, Len(cache))

\* invalidateArchiveCache(year, month)
invalidateArchiveCache(cache, m) == SelectSeq(cache, LAMBDA e : e.key # m)

\* loadArchive(year, month) at time t: the cache after it and the value returned
loadArchive(files, cache, m, t) ==
  IF CacheHas(cache, m) THEN [cache |-> cache, data |-> CacheData(cache, m)]
  ELSE
    LET data == readArchiveFromDisk(files, m)
        room == IF Len(cache) >= MAX_CACHE_SIZE
                THEN RemoveAt(cache, OldestIndex(cache)) ELSE cache
    IN IF data.exists
       THEN [cache |-> Append(room, [key |-> m, data |-> data, loadedAt |-> t]),
             data |-> data]
       ELSE [cache |-> cache, data |-> data]

\* getArchivedGlobalSessions(year, month): archive?.globalSessions || []
getArchivedGlobalSessions(files, cache, m, t) ==
  LET loaded == loadArchive(files, cache, m, t)
  IN [cache |-> loaded.cache,
      sessions |-> IF loaded.data.exists THEN loaded.data.globalSessions ELSE <<>>]

\* getArchivedProjectSessions(year, month, projectId)
getArchivedProjectSessions(files, cache, m, projectId, t) ==
  LET loaded == loadArchive(files, cache, m, t)
  IN [cache |-> loaded.cache,
      sessions |-> IF loaded.data.exists /\ projectId \in DOMAIN loaded.data.projectSessions
                   THEN loaded.data.projectSessions[projectId] ELSE <<>>]

\* getArchivedAllProjectSessions(year, month): archive?.projectSessions || {}
getArchivedAllProjectSessions(files, cache, m, t) ==
  LET loaded == loadArchive(files, cache, m, t)
  IN [cache |-> loaded.cache,
      projectSessions |-> IF loaded.data.exists THEN loaded.data.projectSessions ELSE <<>>]

\* clearArchiveCache(): archiveCache.clear()
clearArchiveCache(cache) == <<>>

\* What can go wrong in writeArchive: "mkdir" is mkdirSync throwing in
\* ensureArchivesDir, "write" is writeFileSync throwing before the temp file
\* exists, "rename" is renameSync throwing, "unlink" is renameSync throwing and
\* the unlinkSync of the clean-up throwing too.  "read" is readFileSync throwing
\* in readArchiveFromDisk, whose catch returns null, with writeArchive succeeding.
Faults == {"none", "mkdir", "write", "rename", "unlink", "read"}

\* ensureArchivesDir creates the directory only if it is missing, and a
\* directory that holds a file is not missing
DirMayBeMissing(files, temp) == temp = {} /\ \A m \in DOMAIN files : files[m].raw = "missing"

\* writeArchive(year, month, archiveData) under a fault: the files and temp
\* files after it, and whether an exception left it
writeArchive(files, temp, m, archiveData, fault) ==
  CASE fault = "mkdir" -> [files |-> files, tempFiles |-> temp, raised |-> TRUE]
    [] fault = "write" -> [files |-> files, tempFiles |-> temp \ {m}, raised |-> FALSE]
    [] fault = "rename" -> [files |-> files, tempFiles |-> temp \ {m}, raised |-> FALSE]
    [] fault = "unlink" -> [files |-> files, tempFiles |-> temp \cup {m}, raised |-> FALSE]
    [] OTHER -> [files |-> [files EXCEPT ![m] = archiveData], tempFiles |-> temp \ {m},
                 raised |-> FALSE]

\* ----------------------------------------------------------- live snapshot
\* sessionsIsArray is Array.isArray(tracking.sessions): a stored record may lack
\* the list or hold something else in its place, and sessions is then <<>>
NewTimeTracking ==
  [totalTime |-> 0, todayTime |-> 0, lastActiveDate |-> NoDate, sessions |-> <<>>,
   sessionsIsArray |-> TRUE]

NewGlobalTimeTracking ==
  [totalTime |-> 0, todayTime |-> 0, weekTime |-> 0, monthTime |-> 0,
   lastActiveDate |-> NoDate, weekStart |-> NoDate, monthStart |-> NoDate, sessions |-> <<>>,
   sessionsIsArray |-> TRUE,
   exists |-> FALSE]

\* "let globalTimesCache = null"
NoTimesCache == [set |-> FALSE, sessionsToday |-> 0, sessionsWeek |-> 0, sessionsMonth |-> 0]

\* The program state a handler reads and writes, as one record
Cur ==
  [initialized |-> initialized, trackingState |-> trackingState, idleTimers |-> idleTimers,
   lastOutputTimes |-> lastOutputTimes, globalLastOutputTime |-> globalLastOutputTime,
   globalIdleTimer |-> globalIdleTimer, projectsState |-> projectsState,
   archiveFiles |-> archiveFiles, archiveCache |-> archiveCache, tempFiles |-> tempFiles,
   globalTimesCache |-> globalTimesCache, nextId |-> nextId]

Commit(c) ==
  /\ trackingState' = c.trackingState
  /\ idleTimers' = c.idleTimers
  /\ lastOutputTimes' = c.lastOutputTimes
  /\ globalLastOutputTime' = c.globalLastOutputTime
  /\ globalIdleTimer' = c.globalIdleTimer
  /\ projectsState' = c.projectsState
  /\ archiveFiles' = c.archiveFiles
  /\ archiveCache' = c.archiveCache
  /\ tempFiles' = c.tempFiles
  /\ globalTimesCache' = c.globalTimesCache
  /\ nextId' = c.nextId

\* ArchiveService.appendToArchive as the tracker calls it, every file operation
\* succeeding: the month's file is rewritten through its temp file, and the
\* month leaves the cache
Archived(c, m, globalSessions, projectSessionsMap) ==
  [c EXCEPT !.archiveFiles = appendToArchive(@, m, globalSessions, projectSessionsMap),
            !.tempFiles = @ \ {m},
            !.archiveCache = invalidateArchiveCache(@, m)]

NewSession(c, startTime, endTime, duration) ==
  [id |-> c.nextId, startTime |-> startTime, endTime |-> endTime, duration |-> duration]

\* saveSession(projectId, startTime, endTime, duration) at time t
TodayBase(tracking, today) ==
  IF tracking.lastActiveDate # today THEN 0 ELSE tracking.todayTime

saveSession(c, projectId, startTime, endTime, duration, t) ==
  IF ~c.initialized THEN c
  ELSE
    LET today == DayOf(t)
        newSession == NewSession(c, startTime, endTime, duration)
        isCurrentMonthSession == MonthOf(startTime) = MonthOf(t)
        tracking == c.projectsState.projects[projectId]
        newTracking ==
          [totalTime |-> tracking.totalTime + duration,
           todayTime |-> TodayBase(tracking, today) + duration,
           lastActiveDate |-> today,
           sessions |-> IF isCurrentMonthSession
                        THEN Append(tracking.sessions, newSession)
                        ELSE tracking.sessions,
           sessionsIsArray |-> TRUE]
        saved == [c EXCEPT !.nextId = @ + 1,
                           !.projectsState.projects[projectId] = newTracking]
    IN IF isCurrentMonthSession THEN saved
       ELSE Archived(saved, MonthOf(startTime), <<>>, (projectId :> <<newSession>>))

\* saveGlobalSession(startTime, endTime, duration) at time t
saveGlobalSession(c, startTime, endTime, duration, t) ==
  IF ~c.initialized THEN c
  ELSE
    LET today == DayOf(t)
        weekStart == getWeekStartString(t)
        monthStart == getMonthString(t)
        prev == c.projectsState.globalTimeTracking
        newSession == NewSession(c, startTime, endTime, duration)
        isCurrentMonthSession == MonthOf(startTime) = MonthOf(t)
        globalTracking ==
          [totalTime |-> prev.totalTime + duration,
           todayTime |-> TodayBase(prev, today) + duration,
           weekTime |-> (IF prev.weekStart # weekStart THEN 0 ELSE prev.weekTime) + duration,
           monthTime |-> (IF prev.monthStart # monthStart THEN 0 ELSE prev.monthTime) + duration,
           lastActiveDate |-> today,
           weekStart |-> weekStart,
           monthStart |-> monthStart,
           sessions |-> IF isCurrentMonthSession
                        THEN Append(prev.sessions, newSession)
                        ELSE prev.sessions,
           sessionsIsArray |-> TRUE,
           exists |-> TRUE]
        saved == [c EXCEPT !.nextId = @ + 1,
                           !.globalTimesCache = NoTimesCache,
                           !.projectsState.globalTimeTracking = globalTracking]
    IN IF isCurrentMonthSession THEN saved
       ELSE Archived(saved, MonthOf(startTime), <<newSession>>, <<>>)

\* ------------------------------------------------------------ session tracker
NoSession == [sessionStartTime |-> 0, lastActivityTime |-> 0, isIdle |-> FALSE]

ActiveSessions(c) == c.trackingState.activeSessions

Tracked(c, projectId) == projectId \in DOMAIN ActiveSessions(c)

\* every tracked interval, idle or not
IsTrackedInterval(session) == TRUE

\* session.sessionStartTime && !session.isIdle
IsActive(session) == session.sessionStartTime # 0 /\ ~session.isIdle

\* state.globalSessionStartTime && !state.globalIsIdle
GlobalActive(ts) == ts.globalSessionStartTime # 0 /\ ~ts.globalIsIdle

SetSession(c, projectId, session) ==
  [c EXCEPT !.trackingState.activeSessions =
     [q \in DOMAIN @ \cup {projectId} |-> IF q = projectId THEN session ELSE @[q]]]

DeleteSession(c, projectId) ==
  [c EXCEPT !.trackingState.activeSessions = [q \in DOMAIN @ \ {projectId} |-> @[q]]]

\* a variant that counts no project as active
getActiveNonIdleCountNone(c) == 0

getActiveNonIdleCount(c) ==
  Cardinality({q \in DOMAIN ActiveSessions(c) : IsActive(ActiveSessions(c)[q])})

startGlobalTimer(c, t) ==
  IF GlobalActive(c.trackingState) THEN c
  ELSE [c EXCEPT !.trackingState.globalSessionStartTime = t,
                 !.trackingState.globalLastActivityTime = t,
                 !.trackingState.globalIsIdle = FALSE,
                 !.globalIdleTimer = t + IDLE_TIMEOUT]

pauseGlobalTimer(c, t) ==
  LET ts == c.trackingState
      duration == t - ts.globalSessionStartTime
      saved == IF duration > MIN_DURATION
               THEN saveGlobalSession(c, ts.globalSessionStartTime, t, duration, t)
               ELSE c
  IN IF ts.globalSessionStartTime = 0 \/ ts.globalIsIdle THEN c
     ELSE [saved EXCEPT !.trackingState.globalSessionStartTime = 0,
                        !.trackingState.globalIsIdle = TRUE]

resumeGlobalTimer(c, t) ==
  IF ~c.trackingState.globalIsIdle THEN c
  ELSE [c EXCEPT !.trackingState.globalSessionStartTime = t,
                 !.trackingState.globalLastActivityTime = t,
                 !.trackingState.globalIsIdle = FALSE,
                 !.globalIdleTimer = t + IDLE_TIMEOUT]

stopGlobalTimer(c, t) ==
  LET ts == c.trackingState
      duration == t - ts.globalSessionStartTime
      saved == IF GlobalActive(ts) /\ duration > MIN_DURATION
               THEN saveGlobalSession(c, ts.globalSessionStartTime, t, duration, t)
               ELSE c
  IN [saved EXCEPT !.globalIdleTimer = 0,
                   !.trackingState.globalSessionStartTime = 0,
                   !.trackingState.globalLastActivityTime = 0,
                   !.trackingState.globalIsIdle = FALSE]

resetGlobalIdleTimer(c, t) ==
  IF c.trackingState.globalIsIdle THEN resumeGlobalTimer(c, t)
  ELSE IF c.trackingState.globalSessionStartTime # 0
       THEN [c EXCEPT !.globalIdleTimer = t + IDLE_TIMEOUT,
                      !.trackingState.globalLastActivityTime = t]
       ELSE c

resumeTracking(c, projectId, t) ==
  IF ~Tracked(c, projectId) \/ ~ActiveSessions(c)[projectId].isIdle THEN c
  ELSE
    LET wasAllIdle == getActiveNonIdleCount(c) = 0
        c1 == SetSession(c, projectId,
                [sessionStartTime |-> t, lastActivityTime |-> t, isIdle |-> FALSE])
        c2 == IF wasAllIdle THEN resumeGlobalTimer(c1, t) ELSE c1
    IN [c2 EXCEPT !.idleTimers[projectId] = t + IDLE_TIMEOUT]

startTracking(c, projectId, t) ==
  LET existingSession == IF Tracked(c, projectId) THEN ActiveSessions(c)[projectId] ELSE NoSession
  IN IF Tracked(c, projectId) /\ IsActive(existingSession) THEN c
     ELSE IF Tracked(c, projectId) /\ existingSession.isIdle THEN resumeTracking(c, projectId, t)
     ELSE
       LET wasEmpty == getActiveNonIdleCount(c) = 0
           c1 == SetSession(c, projectId,
                   [sessionStartTime |-> t, lastActivityTime |-> t, isIdle |-> FALSE])
           c2 == IF wasEmpty THEN startGlobalTimer(c1, t) ELSE c1
       IN [c2 EXCEPT !.idleTimers[projectId] = t + IDLE_TIMEOUT]

\* a variant of stopTracking that stops the global interval whatever remains active
stopTrackingAndGlobal(c, projectId, t) ==
  IF ~Tracked(c, projectId) \/ ActiveSessions(c)[projectId].sessionStartTime = 0
  THEN DeleteSession(c, projectId)
  ELSE
    LET session == ActiveSessions(c)[projectId]
        duration == t - session.sessionStartTime
        c1 == IF duration > MIN_DURATION
              THEN saveSession(c, projectId, session.sessionStartTime, t, duration, t)
              ELSE c
        c2 == DeleteSession([c1 EXCEPT !.idleTimers[projectId] = 0,
                                       !.lastOutputTimes[projectId] = 0], projectId)
    IN stopGlobalTimer(c2, t)

stopTracking(c, projectId, t) ==
  IF ~Tracked(c, projectId) \/ ActiveSessions(c)[projectId].sessionStartTime = 0
  THEN DeleteSession(c, projectId)
  ELSE
    LET session == ActiveSessions(c)[projectId]
        duration == t - session.sessionStartTime
        c1 == IF duration > MIN_DURATION
              THEN saveSession(c, projectId, session.sessionStartTime, t, duration, t)
              ELSE c
        c2 == DeleteSession([c1 EXCEPT !.idleTimers[projectId] = 0,
                                       !.lastOutputTimes[projectId] = 0], projectId)
    IN IF getActiveNonIdleCount(c2) = 0 THEN stopGlobalTimer(c2, t) ELSE c2

recordActivity(c, projectId, t) ==
  IF ~Tracked(c, projectId) THEN startTracking(c, projectId, t)
  ELSE IF ActiveSessions(c)[projectId].isIdle THEN resumeTracking(c, projectId, t)
  ELSE
    LET session == ActiveSessions(c)[projectId]
        c1 == [c EXCEPT !.idleTimers[projectId] = t + IDLE_TIMEOUT]
        c2 == resetGlobalIdleTimer(c1, t)
    IN SetSession(c2, projectId, [session EXCEPT !.lastActivityTime = t])

pauseTracking(c, projectId, t) ==
  IF ~Tracked(c, projectId) \/ ~IsActive(ActiveSessions(c)[projectId]) THEN c
  ELSE
    LET session == ActiveSessions(c)[projectId]
        duration == t - session.sessionStartTime
        c1 == IF duration > MIN_DURATION
              THEN saveSession(c, projectId, session.sessionStartTime, t, duration, t)
              ELSE c
        c2 == SetSession(c1, projectId,
                [session EXCEPT !.sessionStartTime = 0, !.isIdle = TRUE])
    IN IF getActiveNonIdleCount(c2) = 0 THEN pauseGlobalTimer(c2, t) ELSE c2

\* switchProject(oldProjectId, newProjectId): "if (newProjectId)
\* startTracking(newProjectId)"; "none" is a null newProjectId
switchProject(c, oldProjectId, newProjectId, t) ==
  IF newProjectId # "none" THEN startTracking(c, newProjectId, t) ELSE c

\* a variant of the output grace test that never finds output recent
OutputIsRecentIgnored(lastOutput, t) == FALSE

\* "timeSinceOutput < OUTPUT_IDLE_TIMEOUT"
OutputIsRecent(lastOutput, t) == t - lastOutput < OUTPUT_IDLE_TIMEOUT

\* a variant of the idle timeout that pauses without looking at the output
checkAndPauseTrackingImmediate(c, projectId, t) ==
  pauseTracking([c EXCEPT !.idleTimers[projectId] = 0], projectId, t)

\* the idle timeout of projectId fires at time t (its timer is thereby spent)
checkAndPauseTracking(c, projectId, t) ==
  LET lastOutput == c.lastOutputTimes[projectId]
      timeSinceOutput == t - lastOutput
      delay == OUTPUT_IDLE_TIMEOUT - timeSinceOutput + RESCHEDULE_EPSILON
  IN IF OutputIsRecent(lastOutput, t)
     THEN [c EXCEPT !.idleTimers[projectId] = t + delay]
     ELSE pauseTracking([c EXCEPT !.idleTimers[projectId] = 0], projectId, t)

checkAndPauseGlobalTimer(c, t) ==
  LET timeSinceOutput == t - c.globalLastOutputTime
      delay == OUTPUT_IDLE_TIMEOUT - timeSinceOutput + RESCHEDULE_EPSILON
  IN IF OutputIsRecent(c.globalLastOutputTime, t)
     THEN [c EXCEPT !.globalIdleTimer = t + delay]
     ELSE pauseGlobalTimer([c EXCEPT !.globalIdleTimer = 0], t)

\* a variant in which terminal output counts as user input
recordOutputAsActivity(c, projectId, t) == recordActivity(c, projectId, t)

recordOutputActivity(c, projectId, t) ==
  IF ~Tracked(c, projectId) \/ ActiveSessions(c)[projectId].isIdle THEN c
  ELSE [c EXCEPT !.lastOutputTimes[projectId] = t, !.globalLastOutputTime = t]

\* -------------------------------------------------------- boundary detectors
ProjectOrder == <<"A", "B">>

MonthOrder == <<EpochMonth - 1, EpochMonth, EpochMonth + 1>>

\* saveCheckpoints at time t: the loop over activeSessions, then the global part
RECURSIVE CheckpointProjects(_, _, _)
CheckpointProjects(c, i, t) ==
  IF i > Len(ProjectOrder) THEN c
  ELSE
    LET projectId == ProjectOrder[i]
        session == ActiveSessions(c)[projectId]
        duration == t - session.sessionStartTime
    IN IF Tracked(c, projectId) /\ IsActive(session) /\ duration > MIN_DURATION
       THEN CheckpointProjects(
              SetSession(saveSession(c, projectId, session.sessionStartTime, t, duration, t),
                         projectId, [session EXCEPT !.sessionStartTime = t]),
              i + 1, t)
       ELSE CheckpointProjects(c, i + 1, t)

\* a checkpoint of the projects that leaves the global interval out
saveCheckpointsOfProjects(c, t) == CheckpointProjects(c, 1, t)

saveCheckpoints(c, t) ==
  LET ts == c.trackingState
      c1 == CheckpointProjects(c, 1, t)
      duration == t - ts.globalSessionStartTime
  IN IF GlobalActive(ts) /\ duration > MIN_DURATION
     THEN [saveGlobalSession(c1, ts.globalSessionStartTime, t, duration, t)
             EXCEPT !.trackingState.globalSessionStartTime = t]
     ELSE c1

\* saveAllActiveSessions at time t: the loop over activeSessions
RECURSIVE SaveActiveProjects(_, _, _)
SaveActiveProjects(c, i, t) ==
  IF i > Len(ProjectOrder) THEN c
  ELSE
    LET projectId == ProjectOrder[i]
        session == ActiveSessions(c)[projectId]
        duration == t - session.sessionStartTime
    IN IF Tracked(c, projectId) /\ IsActive(session) /\ duration > MIN_DURATION
       THEN SaveActiveProjects(
              saveSession(c, projectId, session.sessionStartTime, t, duration, t), i + 1, t)
       ELSE SaveActiveProjects(c, i + 1, t)

\* a shutdown that checkpoints the intervals and keeps them
saveAllActiveSessionsAsCheckpoint(c, t) == saveCheckpoints(c, t)

\* saveAllActiveSessions up to the immediate save: the sessions, the idle
\* timers cleared, the tracking state reset
saveAllActiveSessions(c, t) ==
  LET ts == c.trackingState
      c1 == SaveActiveProjects(c, 1, t)
      duration == t - ts.globalSessionStartTime
      c2 == IF GlobalActive(ts) /\ duration > MIN_DURATION
            THEN saveGlobalSession(c1, ts.globalSessionStartTime, t, duration, t)
            ELSE c1
  IN [c2 EXCEPT !.idleTimers = [q \in Projects |-> 0],
                !.globalIdleTimer = 0,
                !.trackingState = [activeSessions |-> <<>>, globalSessionStartTime |-> 0,
                                   globalLastActivityTime |-> 0, globalIsIdle |-> FALSE]]

\* an immediate save called before the sessions are saved
immediateSnapshotBeforeSessions(c, t) == c.projectsState

\* the snapshot that saveProjectsImmediateRef() writes when saveAllActiveSessions
\* calls it, as its last statement: what projectsStateRef holds by then
immediateSnapshot(c, t) == saveAllActiveSessions(c, t).projectsState

\* the two loops of handleSleepWake and splitSessionsAtMidnight: every active
\* project interval is cut at boundary, reopened at reopen, lastActivityTime := activity
RECURSIVE CutProjects(_, _, _, _, _, _)
CutProjects(c, i, boundary, reopen, activity, t) ==
  IF i > Len(ProjectOrder) THEN c
  ELSE
    LET projectId == ProjectOrder[i]
        session == ActiveSessions(c)[projectId]
        duration == boundary - session.sessionStartTime
    IN IF Tracked(c, projectId) /\ IsActive(session)
       THEN CutProjects(
              SetSession(IF duration > MIN_DURATION
                         THEN saveSession(c, projectId, session.sessionStartTime,
                                          boundary, duration, t)
                         ELSE c,
                         projectId,
                         [session EXCEPT !.sessionStartTime = reopen,
                                         !.lastActivityTime = activity]),
              i + 1, boundary, reopen, activity, t)
       ELSE CutProjects(c, i + 1, boundary, reopen, activity, t)

CutGlobal(c, boundary, reopen, activity, t) ==
  LET ts == c.trackingState
      duration == boundary - ts.globalSessionStartTime
  IN IF GlobalActive(ts)
     THEN [(IF duration > MIN_DURATION
            THEN saveGlobalSession(c, ts.globalSessionStartTime, boundary, duration, t)
            ELSE c)
             EXCEPT !.trackingState.globalSessionStartTime = reopen,
                    !.trackingState.globalLastActivityTime = activity]
     ELSE c

\* handleSleepWake(sleepStart, wakeTime)
handleSleepWakeAtWake(c, sleepStart, wakeTime) ==
  CutProjects(CutGlobal(c, wakeTime, wakeTime, wakeTime, wakeTime),
              1, wakeTime, wakeTime, wakeTime, wakeTime)

handleSleepWake(c, sleepStart, wakeTime) ==
  CutProjects(CutGlobal(c, sleepStart, wakeTime, wakeTime, wakeTime),
              1, sleepStart, wakeTime, wakeTime, wakeTime)

\* checkSleepWake at time t with the previous tick at last: elapsed > threshold
SleepDetected(last, t) == t - last > SLEEP_GAP_THRESHOLD

checkSleepWake(c, last, t) ==
  LET elapsed == t - last
  IN IF SleepDetected(last, t) THEN handleSleepWake(c, t - elapsed, t) ELSE c

\* splitSessionsAtMidnight at time t
SplitBoundaryAtTick(t) == t

SplitBoundary(t) == MidnightOf(t)

splitSessionsAtMidnight(c, t) ==
  LET midnightTs == SplitBoundary(t)
  IN CutProjects(CutGlobal(c, midnightTs, midnightTs, t, t), 1, midnightTs, midnightTs, t, t)

\* archivePastMonthSessions at time t
PastOf(sessions, m) == SelectSeq(sessions, LAMBDA x : MonthOf(x.startTime) = m)

RECURSIVE ArchiveGlobalMonths(_, _, _, _)
ArchiveGlobalMonths(files, sessions, i, t) ==
  IF i > Len(MonthOrder) THEN files
  ELSE
    LET m == MonthOrder[i]
    IN IF m # MonthOf(t) /\ Len(PastOf(sessions, m)) > 0
       THEN ArchiveGlobalMonths(appendToArchive(files, m, PastOf(sessions, m), <<>>),
                                sessions, i + 1, t)
       ELSE ArchiveGlobalMonths(files, sessions, i + 1, t)

RECURSIVE ArchiveProjectMonths(_, _, _, _)
ArchiveProjectMonths(files, projects, i, t) ==
  IF i > Len(MonthOrder) THEN files
  ELSE
    LET m == MonthOrder[i]
        withPast == {q \in Projects : Len(PastOf(projects[q].sessions, m)) > 0}
        projectsMap == [q \in withPast |-> PastOf(projects[q].sessions, m)]
    IN IF m # MonthOf(t) /\ withPast # {}
       THEN ArchiveProjectMonths(appendToArchive(files, m, <<>>, projectsMap),
                                 projects, i + 1, t)
       ELSE ArchiveProjectMonths(files, projects, i + 1, t)

\* the months for which the pass calls appendToArchive
ArchivedMonths(ps, t) ==
  {m \in Months \ {MonthOf(t)} :
     \/ Len(PastOf(ps.globalTimeTracking.sessions, m)) > 0
     \/ \E q \in Projects : Len(PastOf(ps.projects[q].sessions, m)) > 0}

\* a pass that leaves every live list as it is
archivePastMonthSessionsSkipped(c, t) == c

\* a pass that copies the past sessions to the archives and keeps the live lists
archivePastMonthSessionsCopied(c, t) ==
  IF ~c.initialized THEN c
  ELSE
    LET ps == c.projectsState
        files1 == ArchiveGlobalMonths(c.archiveFiles, ps.globalTimeTracking.sessions, 1, t)
    IN [c EXCEPT !.archiveFiles = ArchiveProjectMonths(files1, ps.projects, 1, t),
                 !.tempFiles = @ \ ArchivedMonths(ps, t),
                 !.archiveCache = SelectSeq(@, LAMBDA e : e.key \notin ArchivedMonths(ps, t))]

archivePastMonthSessions(c, t) ==
  IF ~c.initialized THEN c
  ELSE
    LET ps == c.projectsState
        currentMonthGlobal == PastOf(ps.globalTimeTracking.sessions, MonthOf(t))
        files1 == ArchiveGlobalMonths(c.archiveFiles, ps.globalTimeTracking.sessions, 1, t)
        files2 == ArchiveProjectMonths(files1, ps.projects, 1, t)
        projects == [q \in Projects |->
                       [ps.projects[q] EXCEPT !.sessions = PastOf(@, MonthOf(t))]]
    IN [c EXCEPT !.archiveFiles = files2,
                 !.tempFiles = @ \ ArchivedMonths(ps, t),
                 !.archiveCache = SelectSeq(@, LAMBDA e : e.key \notin ArchivedMonths(ps, t)),
                 !.projectsState.projects = projects,
                 !.projectsState.globalTimeTracking.sessions = currentMonthGlobal]

\* a variant of checkMidnightReset that runs the archival pass before the split
checkMidnightResetArchiveFirst(c, known, t) ==
  LET today == DayOf(t)
      monthChanged == MonthOf(known * DayMs) # MonthOf(today * DayMs)
      cleared == [c EXCEPT !.globalTimesCache = NoTimesCache]
  IN IF known # NoDate /\ known # today
     THEN IF monthChanged
          THEN splitSessionsAtMidnight(archivePastMonthSessions(cleared, t), t)
          ELSE splitSessionsAtMidnight(cleared, t)
     ELSE c

\* checkMidnightReset at time t (lastKnownDate is updated by the action)
checkMidnightReset(c, known, t) ==
  LET today == DayOf(t)
      monthChanged == MonthOf(known * DayMs) # MonthOf(today * DayMs)
      split == splitSessionsAtMidnight([c EXCEPT !.globalTimesCache = NoTimesCache], t)
  IN IF known # NoDate /\ known # today
     THEN IF monthChanged THEN archivePastMonthSessions(split, t) ELSE split
     ELSE c

\* ------------------------------------------------------------------ startup
maxReasonableDuration == 24 * 60 * 60 * 1000

\* a startTime or endTime that new Date() cannot parse (getTime() is NaN); an
\* empty or absent one is 0
Unparseable == -1

\* a duration that is not a finite number (NaN, Infinity, a string, absent)
NotFinite == -777

\* a counter that the stored record does not have (undefined)
Undefined == NotFinite - 1

\* a filter without the upper limit on the duration
ValidSessionAnyLength(x) ==
  /\ x.startTime # 0 /\ x.endTime # 0
  /\ x.duration # NotFinite /\ x.duration > 0
  /\ x.startTime # Unparseable /\ x.endTime # Unparseable
  /\ x.endTime >= x.startTime

\* the filter of sanitizeTimeTrackingData: a session that stays
ValidSession(x) ==
  /\ x.startTime # 0 /\ x.endTime # 0
  /\ x.duration # NotFinite /\ x.duration > 0
  /\ x.duration <= maxReasonableDuration
  /\ x.startTime # Unparseable /\ x.endTime # Unparseable
  /\ x.endTime >= x.startTime

\* lastDate.getTime() > now + 86400000
FutureDate(date, t) == date # NoDate /\ date * DayMs > t + 86400000

SanitizeTracking(tracking, t) ==
  LET future == FutureDate(tracking.lastActiveDate, t)
  IN [tracking EXCEPT
        !.totalTime = IF @ < 0 THEN 0 ELSE @,
        !.todayTime = IF @ < 0 \/ future THEN 0 ELSE @,
        !.lastActiveDate = IF future THEN NoDate ELSE @,
        !.sessions = SelectSeq(@, ValidSession),
        !.sessionsIsArray = TRUE]

\* "!Number.isFinite(v) || v < 0" sets the counter to 0: NotFinite and Undefined
\* are below 0
SanitizeGlobal(g) ==
  IF ~g.exists THEN g
  ELSE [g EXCEPT !.totalTime = IF @ < 0 THEN 0 ELSE @,
                 !.todayTime = IF @ < 0 THEN 0 ELSE @,
                 !.weekTime = IF @ < 0 THEN 0 ELSE @,
                 !.monthTime = IF @ < 0 THEN 0 ELSE @,
                 !.sessions = SelectSeq(@, ValidSession),
                 !.sessionsIsArray = TRUE]

\* the "changed" flag of one project record
SanitizeChanged(tracking, t) ==
  \/ tracking.totalTime < 0
  \/ tracking.todayTime < 0
  \/ FutureDate(tracking.lastActiveDate, t)
  \/ Len(SelectSeq(tracking.sessions, ValidSession)) # Len(tracking.sessions)
  \/ ~tracking.sessionsIsArray

\* needsSave with the project records' flags only
sanitizeSavesProjectsOnly(c, t) ==
  IF c.initialized /\ \E q \in Projects : SanitizeChanged(c.projectsState.projects[q], t)
  THEN 1 ELSE 0

\* the number of projectsStateRef.set(newState); saveProjectsRef() pairs one
\* call performs: one if needsSave, none otherwise
sanitizeSaves(c, t) ==
  LET g == c.projectsState.globalTimeTracking
      gChanged == /\ g.exists
                  /\ \/ g.totalTime < 0 \/ g.todayTime < 0 \/ g.weekTime < 0 \/ g.monthTime < 0
                     \/ Len(SelectSeq(g.sessions, ValidSession)) # Len(g.sessions)
                     \/ ~g.sessionsIsArray
      needsSave == \/ \E q \in Projects : SanitizeChanged(c.projectsState.projects[q], t)
                   \/ gChanged
  IN IF c.initialized /\ needsSave THEN 1 ELSE 0

sanitizeTimeTrackingData(c, t) ==
  IF sanitizeSaves(c, t) = 0 THEN c
  ELSE [c EXCEPT !.projectsState.projects = [q \in Projects |-> SanitizeTracking(@[q], t)],
                 !.projectsState.globalTimeTracking = SanitizeGlobal(@)]

RECURSIVE SumDurations(_)
SumDurations(sessions) ==
  IF Len(sessions) = 0 THEN 0 ELSE Head(sessions).duration + SumDurations(Tail(sessions))

\* new Date(now.getFullYear(), now.getMonth(), 1), as a day index
MonthStartOf(t) ==
  IF MonthOf(t) = EpochMonth - 1 THEN 1 - Epoch.dayOfMonth - Epoch.previousLength
  ELSE IF MonthOf(t) = EpochMonth THEN 1 - Epoch.dayOfMonth
  ELSE Epoch.monthLength - Epoch.dayOfMonth + 1

\* the session totals of getGlobalTimes() at time t: those of globalTimesCache
\* if it is set, else the sums over the live global sessions that start in the
\* day, the week and the month of t ("session.duration || 0"; a startTime that
\* cannot be parsed compares false).  The periods are given by the day index
\* of their first day.
SessionTotals(c, t) ==
  LET g == c.projectsState.globalTimeTracking
      sessions == IF g.exists THEN g.sessions ELSE <<>>
      todayStart == DayOf(t)
      weekStartDate == getWeekStartString(t)
      counted(x) == x.startTime # Unparseable /\ x.duration # NotFinite
      sessionsToday == SelectSeq(sessions, LAMBDA x : /\ counted(x)
                                                      /\ DayOf(x.startTime) = todayStart)
      sessionsWeek == SelectSeq(sessions, LAMBDA x : /\ counted(x)
                                                     /\ DayOf(x.startTime) >= weekStartDate
                                                     /\ DayOf(x.startTime) < weekStartDate + 7)
      sessionsMonth == SelectSeq(sessions, LAMBDA x : /\ counted(x)
                                                      /\ MonthOf(x.startTime) = MonthOf(t))
  IN IF c.globalTimesCache.set THEN c.globalTimesCache
     ELSE [set |-> TRUE,
           sessionsToday |-> SumDurations(sessionsToday),
           sessionsWeek |-> SumDurations(sessionsWeek),
           sessionsMonth |-> SumDurations(sessionsMonth)]

\* what getGlobalTimes() returns at time t: the session totals plus the running
\* global interval clipped to the period
getGlobalTimes(c, t) ==
  LET totals == SessionTotals(c, t)
      todayStart == DayOf(t)
      weekStartDate == getWeekStartString(t)
      sessionStart == c.trackingState.globalSessionStartTime
      running(periodStart) ==
        LET effectiveStart == IF DayOf(sessionStart) >= periodStart THEN sessionStart
                              ELSE periodStart * DayMs
        IN IF GlobalActive(c.trackingState) /\ t > effectiveStart THEN t - effectiveStart ELSE 0
  IN IF ~c.initialized THEN [today |-> 0, week |-> 0, month |-> 0]
     ELSE [today |-> totals.sessionsToday + running(todayStart),
           week |-> totals.sessionsWeek + running(weekStartDate),
           month |-> totals.sessionsMonth + running(MonthStartOf(t))]

\* the state getGlobalTimes() leaves: globalTimesCache holds the totals it used
getGlobalTimesState(c, t) ==
  IF ~c.initialized THEN c ELSE [c EXCEPT !.globalTimesCache = SessionTotals(c, t)]

migrateGlobalTimeTracking(c, t) ==
  LET g == c.projectsState.globalTimeTracking
      weekStart == getWeekStartString(t)
      monthStart == getMonthString(t)
      needsWeekMigration == g.weekTime = Undefined \/ g.weekStart # weekStart
      needsMonthMigration == g.monthTime = Undefined \/ g.monthStart # monthStart
      inWeek(x) == /\ x.startTime >= weekStart * DayMs
                   /\ x.startTime < (weekStart + 7) * DayMs
      inMonth(x) == MonthOf(x.startTime) = monthStart
  IN IF ~c.initialized \/ ~g.exists THEN c
     ELSE [c EXCEPT !.projectsState.globalTimeTracking =
             [g EXCEPT
                !.weekTime = IF needsWeekMigration
                             THEN SumDurations(SelectSeq(g.sessions, inWeek)) ELSE @,
                !.weekStart = weekStart,
                !.monthTime = IF needsMonthMigration
                              THEN SumDurations(SelectSeq(g.sessions, inMonth)) ELSE @,
                !.monthStart = monthStart]]

\* initTimeTracking at time t, on the program state c
initTimeTracking(c, t) ==
  archivePastMonthSessions(
    migrateGlobalTimeTracking(
      sanitizeTimeTrackingData([c EXCEPT !.initialized = TRUE], t), t), t)

\* the state after the module is loaded at time t
Constructed(t) ==
  [initialized |-> FALSE,
   trackingState |-> [activeSessions |-> <<>>, globalSessionStartTime |-> 0,
                      globalLastActivityTime |-> 0, globalIsIdle |-> FALSE],
   idleTimers |-> [q \in Projects |-> 0],
   lastOutputTimes |-> [q \in Projects |-> 0],
   globalLastOutputTime |-> 0,
   globalIdleTimer |-> 0,
   projectsState |-> [projects |-> [q \in Projects |-> NewTimeTracking],
                      globalTimeTracking |-> NewGlobalTimeTracking],
   archiveFiles |-> [m \in Months |-> NoFile],
   archiveCache |-> <<>>,
   tempFiles |-> {},
   globalTimesCache |-> NoTimesCache,
   nextId |-> 1]

NoOp == [name |-> "none", projectId |-> "none"]

\* an ArchiveService call that has not happened: nothing returned, nothing thrown
NoOutcome ==
  [raised |-> FALSE, data |-> NoFile, sessions |-> <<>>, projectSessions |-> <<>>,
   dropped |-> {}]

\* the months that a call removed from the cache
Dropped(before, after) ==
  {before[i].key : i \in 1..Len(before)} \ {after[i].key : i \in 1..Len(after)}

NoCall ==
  [month |-> 0, globalSessions |-> <<>>, projectSessionsMap |-> <<>>, projectId |-> "none",
   fault |-> "none"]

Op(name, projectId) == [name |-> name, projectId |-> projectId]

\* ------------------------------------------------------------------ actions
Due(deadline) == deadline # 0 /\ deadline <= now

Deadlines ==
  {d \in {heartbeatTimer, midnightCheckTimer, checkpointTimer, globalIdleTimer}
          \cup {idleTimers[q] : q \in Projects} : d # 0}

\* no callback is due: the event loop has nothing to run but exported calls
NoTimerDue == \A d \in Deadlines : d > now

NextDeadline == CHOOSE d \in Deadlines : \A e \in Deadlines : d <= e

\* an exported call: it may arrive while timer callbacks are overdue
UserFrame(name, projectId) ==
  /\ lastOp' = Op(name, projectId)
  /\ opsLeft' = opsLeft - 1
  /\ UNCHANGED <<now, initialized, lastHeartbeat, heartbeatTimer, midnightCheckTimer,
                 checkpointTimer, lastKnownDate, sleepGap, sleepsLeft, stepsLeft, ticksLeft,
                 serviceVars>>

StartTracking(projectId) ==
  /\ opsLeft > 0
  /\ Commit(startTracking(Cur, projectId, now))
  /\ UserFrame("startTracking", projectId)

StopTracking(projectId) ==
  /\ opsLeft > 0
  /\ Commit(stopTracking(Cur, projectId, now))
  /\ UserFrame("stopTracking", projectId)

RecordActivity(projectId) ==
  /\ opsLeft > 0
  /\ Commit(recordActivity(Cur, projectId, now))
  /\ UserFrame("recordActivity", projectId)

RecordOutputActivity(projectId) ==
  /\ opsLeft > 0
  /\ Commit(recordOutputActivity(Cur, projectId, now))
  /\ UserFrame("recordOutputActivity", projectId)

\* the exported pauseTracking(projectId), called on its own: the idle timer of
\* the project is neither cleared nor set
PauseTracking(projectId) ==
  /\ opsLeft > 0
  /\ Commit(pauseTracking(Cur, projectId, now))
  /\ UserFrame("pauseTracking", projectId)

\* the exported resumeTracking(projectId), called on its own
ResumeTracking(projectId) ==
  /\ opsLeft > 0
  /\ Commit(resumeTracking(Cur, projectId, now))
  /\ UserFrame("resumeTracking", projectId)

\* the exported switchProject(oldProjectId, newProjectId)
SwitchProject(oldProjectId, newProjectId) ==
  /\ opsLeft > 0
  /\ Commit(switchProject(Cur, oldProjectId, newProjectId, now))
  /\ UserFrame("switchProject", newProjectId)

\* the exported getGlobalTimes(): what it returns is getGlobalTimes(Cur, now)
GetGlobalTimes ==
  /\ opsLeft > 0
  /\ Commit(getGlobalTimesState(Cur, now))
  /\ UserFrame("getGlobalTimes", "none")

\* initTimeTracking(projectsState, saveProjects, saveProjectsImmediate), then
\* startMidnightCheck, startHeartbeat and startCheckpointTimer
InitTimeTracking ==
  /\ opsLeft > 0
  /\ LET c == initTimeTracking(Cur, now)
     IN /\ Commit(c)
        /\ initialized' = c.initialized
  /\ lastKnownDate' = DayOf(now)
  /\ midnightCheckTimer' = now + MIDNIGHT_CHECK_INTERVAL
  /\ lastHeartbeat' = now
  /\ heartbeatTimer' = now + HEARTBEAT_INTERVAL
  /\ checkpointTimer' = now + CHECKPOINT_INTERVAL
  /\ lastOp' = Op("initTimeTracking", "none")
  /\ opsLeft' = opsLeft - 1
  /\ UNCHANGED <<now, sleepGap, sleepsLeft, stepsLeft, ticksLeft, serviceVars>>

\* a timer callback: runs once its deadline has passed
TimerFrame ==
  UNCHANGED <<now, initialized, sleepGap, opsLeft, sleepsLeft, stepsLeft, ticksLeft,
              serviceVars>>

CheckSleepWake ==
  /\ Due(heartbeatTimer)
  /\ Commit(checkSleepWake(Cur, lastHeartbeat, now))
  /\ lastHeartbeat' = now
  /\ heartbeatTimer' = now + HEARTBEAT_INTERVAL
  /\ lastOp' = Op("checkSleepWake", "none")
  /\ TimerFrame
  /\ UNCHANGED <<midnightCheckTimer, checkpointTimer, lastKnownDate>>

CheckMidnightReset ==
  /\ Due(midnightCheckTimer)
  /\ Commit(checkMidnightReset(Cur, lastKnownDate, now))
  /\ lastKnownDate' = IF lastKnownDate # NoDate /\ lastKnownDate # DayOf(now)
                      THEN DayOf(now) ELSE lastKnownDate
  /\ midnightCheckTimer' = now + MIDNIGHT_CHECK_INTERVAL
  /\ lastOp' = Op("checkMidnightReset", "none")
  /\ TimerFrame
  /\ UNCHANGED <<lastHeartbeat, heartbeatTimer, checkpointTimer>>

SaveCheckpoints ==
  /\ Due(checkpointTimer)
  /\ Commit(saveCheckpoints(Cur, now))
  /\ checkpointTimer' = now + CHECKPOINT_INTERVAL
  /\ lastOp' = Op("saveCheckpoints", "none")
  /\ TimerFrame
  /\ UNCHANGED <<lastHeartbeat, heartbeatTimer, midnightCheckTimer, lastKnownDate>>

\* saveAllActiveSessions() when the application quits: the interval timers are
\* cleared, and saveProjectsImmediateRef, set by initTimeTracking, writes the
\* snapshot
SaveAllActiveSessions ==
  /\ opsLeft > 0
  /\ LET c == saveAllActiveSessions(Cur, now)
     IN /\ Commit(c)
        /\ immediateSaves' = IF initialized
                              THEN Append(immediateSaves, immediateSnapshot(Cur, now))
                              ELSE immediateSaves
  /\ midnightCheckTimer' = 0
  /\ heartbeatTimer' = 0
  /\ checkpointTimer' = 0
  /\ lastOp' = Op("saveAllActiveSessions", "none")
  /\ opsLeft' = opsLeft - 1
  /\ UNCHANGED <<now, initialized, lastHeartbeat, lastKnownDate, sleepGap, sleepsLeft,
                 stepsLeft, ticksLeft, outcome, lastCall, loadedState>>

CheckAndPauseTracking(projectId) ==
  /\ Due(idleTimers[projectId])
  /\ Commit(checkAndPauseTracking(Cur, projectId, now))
  /\ lastOp' = Op("checkAndPauseTracking", projectId)
  /\ TimerFrame
  /\ UNCHANGED <<lastHeartbeat, heartbeatTimer, midnightCheckTimer, checkpointTimer,
                 lastKnownDate>>

CheckAndPauseGlobalTimer ==
  /\ Due(globalIdleTimer)
  /\ Commit(checkAndPauseGlobalTimer(Cur, now))
  /\ lastOp' = Op("checkAndPauseGlobalTimer", "none")
  /\ TimerFrame
  /\ UNCHANGED <<lastHeartbeat, heartbeatTimer, midnightCheckTimer, checkpointTimer,
                 lastKnownDate>>

\* the passing of time: a callback runs at its deadline or later, never before
\* (Due). The event loop waits for the next deadline only when no callback is
\* due (Advance); work in progress (Step) and a system sleep (Sleep, LongSleep)
\* take time whether or not a callback is due, and make callbacks late
ProgramFrame ==
  UNCHANGED <<initialized, trackingState, idleTimers, lastOutputTimes, globalLastOutputTime,
              globalIdleTimer, lastHeartbeat, heartbeatTimer, midnightCheckTimer,
              checkpointTimer, lastKnownDate, projectsState, archiveFiles, archiveCache,
              tempFiles, globalTimesCache, nextId, serviceVars>>

Advance ==
  /\ ticksLeft > 0
  /\ NoTimerDue
  /\ Deadlines # {}
  /\ now' = NextDeadline
  /\ ticksLeft' = ticksLeft - 1
  /\ lastOp' = NoOp
  /\ ProgramFrame
  /\ UNCHANGED <<sleepGap, opsLeft, sleepsLeft, stepsLeft>>

Step ==
  /\ stepsLeft > 0
  /\ now' = now + SubSecondStep
  /\ stepsLeft' = stepsLeft - 1
  /\ lastOp' = NoOp
  /\ ProgramFrame
  /\ UNCHANGED <<sleepGap, opsLeft, sleepsLeft, ticksLeft>>

\* a system sleep; sleepGap records the one sleep of a behaviour
Sleep ==
  /\ sleepsLeft > 0
  /\ sleepGap = <<0, 0>>
  /\ now' = now + SleepDuration
  /\ sleepGap' = <<now, now + SleepDuration>>
  /\ sleepsLeft' = sleepsLeft - 1
  /\ lastOp' = NoOp
  /\ ProgramFrame
  /\ UNCHANGED <<opsLeft, stepsLeft, ticksLeft>>

\* a system sleep of more than a day
LongSleep ==
  /\ sleepsLeft > 0
  /\ sleepGap = <<0, 0>>
  /\ now' = now + LongSleepDuration
  /\ sleepGap' = <<now, now + LongSleepDuration>>
  /\ sleepsLeft' = sleepsLeft - 1
  /\ lastOp' = NoOp
  /\ ProgramFrame
  /\ UNCHANGED <<opsLeft, stepsLeft, ticksLeft>>

\* ------------------------------------------------------------ specifications
\* the program at time t, its timers started then, in the state c of its handlers
RunningIn(c, t) ==
  /\ now = t
  /\ initialized = c.initialized
  /\ trackingState = c.trackingState
  /\ idleTimers = c.idleTimers
  /\ lastOutputTimes = c.lastOutputTimes
  /\ globalLastOutputTime = c.globalLastOutputTime
  /\ globalIdleTimer = c.globalIdleTimer
  /\ projectsState = c.projectsState
  /\ archiveFiles = c.archiveFiles
  /\ globalTimesCache = c.globalTimesCache
  /\ nextId = c.nextId
  /\ lastHeartbeat = t
  /\ heartbeatTimer = t + HEARTBEAT_INTERVAL
  /\ midnightCheckTimer = t + MIDNIGHT_CHECK_INTERVAL
  /\ checkpointTimer = t + CHECKPOINT_INTERVAL
  /\ lastKnownDate = DayOf(t)
  /\ lastOp = NoOp
  /\ sleepGap = <<0, 0>>
  /\ archiveCache = <<>>
  /\ tempFiles = {}
  /\ outcome = NoOutcome
  /\ lastCall = NoCall
  /\ immediateSaves = <<>>
  /\ loadedState = Constructed(t).projectsState

\* the program right after initTimeTracking, at time t
Running(t) == RunningIn(initTimeTracking(Constructed(t), t), t)

\* started 30.5 s before the midnight that begins the month after the epoch's
StartTime == LastDay + DayMs - 30500

\* the states of the handlers right after initTimeTracking at time t, and after
\* a startTracking("A") that follows it at once
FreshOrTracking(t) ==
  {initTimeTracking(Constructed(t), t),
   startTracking(initTimeTracking(Constructed(t), t), "A", t)}

Init ==
  /\ Running(StartTime)
  /\ opsLeft = MaxOps
  /\ sleepsLeft = MaxSleeps
  /\ stepsLeft = 0
  /\ ticksLeft = MaxTicks

\* one project and the global interval, across a midnight and a system sleep
Next ==
  \/ StartTracking("A")
  \/ StopTracking("A")
  \/ RecordActivity("A")
  \/ PauseTracking("A")
  \/ ResumeTracking("A")
  \/ GetGlobalTimes
  \/ CheckSleepWake
  \/ CheckMidnightReset
  \/ SaveCheckpoints
  \/ CheckAndPauseTracking("A")
  \/ CheckAndPauseGlobalTimer
  \/ Advance
  \/ Sleep

Spec == Init /\ [][Next]_vars

\* two projects started and stopped within the first heartbeat periods
InitConc ==
  /\ Running(StartTime)
  /\ opsLeft = MaxConcOps
  /\ sleepsLeft = 0
  /\ stepsLeft = MaxConcSteps
  /\ ticksLeft = MaxConcTicks

NextConc ==
  \/ \E projectId \in Projects : StartTracking(projectId)
  \/ \E projectId \in Projects : StopTracking(projectId)
  \/ CheckSleepWake
  \/ CheckMidnightReset
  \/ Advance
  \/ Step

SpecConc == InitConc /\ [][NextConc]_vars

\* one project over the idle timeout, with terminal output
InitIdle ==
  /\ Running(StartTime)
  /\ opsLeft = MaxIdleOps
  /\ sleepsLeft = 0
  /\ stepsLeft = 0
  /\ ticksLeft = MaxIdleTicks

NextIdle ==
  \/ StartTracking("A")
  \/ RecordActivity("A")
  \/ RecordOutputActivity("A")
  \/ PauseTracking("A")
  \/ ResumeTracking("A")
  \/ CheckSleepWake
  \/ CheckMidnightReset
  \/ SaveCheckpoints
  \/ CheckAndPauseTracking("A")
  \/ CheckAndPauseGlobalTimer
  \/ Advance

SpecIdle == InitIdle /\ [][NextIdle]_vars

\* one project over the idle timeout late in the evening: started 15 minutes
\* and 15 s before the midnight that ends the epoch's month, so that the idle
\* timeout of a project tracked from the start falls 15 s before midnight and
\* the first midnight check of the new day 15 s after it
EveningStart == LastDay + DayMs - IDLE_TIMEOUT - HEARTBEAT_INTERVAL \div 2

InitEvening ==
  /\ \E c \in FreshOrTracking(EveningStart) : RunningIn(c, EveningStart)
  /\ opsLeft = MaxEveningOps
  /\ sleepsLeft = 0
  /\ stepsLeft = 0
  /\ ticksLeft = MaxEveningTicks

NextEvening ==
  \/ StartTracking("A")
  \/ StopTracking("A")
  \/ RecordActivity("A")
  \/ CheckSleepWake
  \/ CheckMidnightReset
  \/ SaveCheckpoints
  \/ CheckAndPauseTracking("A")
  \/ CheckAndPauseGlobalTimer
  \/ Advance

\* time passes: with no callback due, the clock reaches the deadline of the
\* next timer; the calls of the user are not forced
SpecEvening ==
  /\ InitEvening
  /\ [][NextEvening]_vars
  /\ WF_vars(Advance)

\* one project started and producing output, with time enough for an idle
\* timeout deferred by output to fire again; a due timer callback runs, and
\* time passes
InitLive ==
  /\ \E c \in FreshOrTracking(StartTime) : RunningIn(c, StartTime)
  /\ opsLeft = MaxLiveOps
  /\ sleepsLeft = 0
  /\ stepsLeft = 0
  /\ ticksLeft = MaxLiveTicks

NextLive ==
  \/ StartTracking("A")
  \/ RecordOutputActivity("A")
  \/ CheckSleepWake
  \/ CheckMidnightReset
  \/ SaveCheckpoints
  \/ CheckAndPauseTracking("A")
  \/ CheckAndPauseGlobalTimer
  \/ Advance

SpecLive ==
  /\ InitLive
  /\ [][NextLive]_vars
  /\ WF_vars(\/ CheckSleepWake
             \/ CheckMidnightReset
             \/ SaveCheckpoints
             \/ CheckAndPauseTracking("A")
             \/ CheckAndPauseGlobalTimer
             \/ Advance)

\* the archive store alone: appends of small session lists to the two months
SampleSession(i) ==
  [id |-> i, startTime |-> LastDay + i * 60000, endTime |-> LastDay + i * 60000 + 5000,
   duration |-> 5000]

SampleIds == 1..2

SampleLists ==
  {<<>>} \cup UNION {[1..n -> {SampleSession(i) : i \in SampleIds}] : n \in 1..MaxInputLen}

\* a call of the archive service leaves the tracker alone
ServiceFrame ==
  /\ opsLeft' = opsLeft - 1
  /\ UNCHANGED <<initialized, trackingState, idleTimers, lastOutputTimes,
                 globalLastOutputTime, globalIdleTimer, lastHeartbeat, heartbeatTimer,
                 midnightCheckTimer, checkpointTimer, lastKnownDate, projectsState, nextId,
                 sleepGap, sleepsLeft, stepsLeft, ticksLeft, immediateSaves, loadedState,
                 globalTimesCache>>

Call(m, globalSessions, projectSessionsMap, projectId) ==
  [month |-> m, globalSessions |-> globalSessions,
   projectSessionsMap |-> projectSessionsMap, projectId |-> projectId, fault |-> "none"]

\* appendToArchive(year, month, globalSessions, projectSessionsMap): read from
\* disk, merge, writeArchive, invalidateArchiveCache; an exception thrown by
\* writeArchive leaves the function before the invalidation; a read that throws
\* is answered like a file that cannot be parsed
AppendToArchive(m, globalSessions, projectSessionsMap, fault) ==
  /\ opsLeft > 0
  /\ fault = "mkdir" => DirMayBeMissing(archiveFiles, tempFiles)
  /\ fault = "read" => archiveFiles[m].raw # "missing"
  /\ LET asRead == IF fault = "read" THEN [archiveFiles EXCEPT ![m] = CorruptFile]
                   ELSE archiveFiles
         merged == appendToArchive(asRead, m, globalSessions, projectSessionsMap)[m]
         written == writeArchive(archiveFiles, tempFiles, m, merged, fault)
     IN /\ archiveFiles' = written.files
        /\ tempFiles' = written.tempFiles
        /\ outcome' = [NoOutcome EXCEPT
                         !.raised = written.raised,
                         !.dropped = IF written.raised THEN {}
                                     ELSE Dropped(archiveCache,
                                                  invalidateArchiveCache(archiveCache, m))]
        /\ archiveCache' = IF written.raised THEN archiveCache
                           ELSE invalidateArchiveCache(archiveCache, m)
  /\ lastCall' = [Call(m, globalSessions, projectSessionsMap, "none") EXCEPT !.fault = fault]
  /\ lastOp' = Op("appendToArchive", "none")
  /\ now' = now
  /\ ServiceFrame

\* loadArchive(year, month), dt ms after the previous call
LoadArchive(m, dt) ==
  /\ opsLeft > 0
  /\ now' = now + dt
  /\ LET loaded == loadArchive(archiveFiles, archiveCache, m, now + dt)
     IN /\ archiveCache' = loaded.cache
        /\ outcome' = [NoOutcome EXCEPT !.data = loaded.data,
                                        !.dropped = Dropped(archiveCache, loaded.cache)]
  /\ lastCall' = Call(m, <<>>, <<>>, "none")
  /\ lastOp' = Op("loadArchive", "none")
  /\ UNCHANGED <<archiveFiles, tempFiles>>
  /\ ServiceFrame

GetArchivedGlobalSessions(m) ==
  /\ opsLeft > 0
  /\ now' = now
  /\ LET got == getArchivedGlobalSessions(archiveFiles, archiveCache, m, now)
     IN /\ archiveCache' = got.cache
        /\ outcome' = [NoOutcome EXCEPT !.sessions = got.sessions,
                                        !.dropped = Dropped(archiveCache, got.cache)]
  /\ lastCall' = Call(m, <<>>, <<>>, "none")
  /\ lastOp' = Op("getArchivedGlobalSessions", "none")
  /\ UNCHANGED <<archiveFiles, tempFiles>>
  /\ ServiceFrame

GetArchivedProjectSessions(m, projectId) ==
  /\ opsLeft > 0
  /\ now' = now
  /\ LET got == getArchivedProjectSessions(archiveFiles, archiveCache, m, projectId, now)
     IN /\ archiveCache' = got.cache
        /\ outcome' = [NoOutcome EXCEPT !.sessions = got.sessions,
                                        !.dropped = Dropped(archiveCache, got.cache)]
  /\ lastCall' = Call(m, <<>>, <<>>, projectId)
  /\ lastOp' = Op("getArchivedProjectSessions", projectId)
  /\ UNCHANGED <<archiveFiles, tempFiles>>
  /\ ServiceFrame

GetArchivedAllProjectSessions(m) ==
  /\ opsLeft > 0
  /\ now' = now
  /\ LET got == getArchivedAllProjectSessions(archiveFiles, archiveCache, m, now)
     IN /\ archiveCache' = got.cache
        /\ outcome' = [NoOutcome EXCEPT !.projectSessions = got.projectSessions,
                                        !.dropped = Dropped(archiveCache, got.cache)]
  /\ lastCall' = Call(m, <<>>, <<>>, "none")
  /\ lastOp' = Op("getArchivedAllProjectSessions", "none")
  /\ UNCHANGED <<archiveFiles, tempFiles>>
  /\ ServiceFrame

\* the exported invalidateArchiveCache(year, month), called on its own
InvalidateArchiveCache(m) ==
  /\ opsLeft > 0
  /\ now' = now
  /\ archiveCache' = invalidateArchiveCache(archiveCache, m)
  /\ outcome' = [NoOutcome EXCEPT
                   !.dropped = Dropped(archiveCache, invalidateArchiveCache(archiveCache, m))]
  /\ lastCall' = Call(m, <<>>, <<>>, "none")
  /\ lastOp' = Op("invalidateArchiveCache", "none")
  /\ UNCHANGED <<archiveFiles, tempFiles>>
  /\ ServiceFrame

\* the exported clearArchiveCache()
ClearArchiveCache ==
  /\ opsLeft > 0
  /\ now' = now
  /\ archiveCache' = clearArchiveCache(archiveCache)
  /\ outcome' = [NoOutcome EXCEPT
                   !.dropped = Dropped(archiveCache, clearArchiveCache(archiveCache))]
  /\ lastCall' = NoCall
  /\ lastOp' = Op("clearArchiveCache", "none")
  /\ UNCHANGED <<archiveFiles, tempFiles>>
  /\ ServiceFrame

InitArchive ==
  /\ Running(StartTime)
  /\ opsLeft = MaxAppends
  /\ sleepsLeft = 0
  /\ stepsLeft = 0
  /\ ticksLeft = 0

SampleMonths == {EpochMonth, EpochMonth + 1}

NextArchive ==
  \E m \in SampleMonths, globalSessions \in SampleLists, projectList \in SampleLists :
    \/ AppendToArchive(m, globalSessions, <<>>, "none")
    \/ AppendToArchive(m, globalSessions, ("A" :> projectList), "none")

SpecArchive == InitArchive /\ [][NextArchive]_vars

\* the state after the modules are loaded at time t, before initTimeTracking
Loaded(t) ==
  /\ now = t
  /\ LET c == Constructed(t)
     IN /\ initialized = c.initialized
        /\ trackingState = c.trackingState
        /\ idleTimers = c.idleTimers
        /\ lastOutputTimes = c.lastOutputTimes
        /\ globalLastOutputTime = c.globalLastOutputTime
        /\ globalIdleTimer = c.globalIdleTimer
        /\ globalTimesCache = c.globalTimesCache
        /\ nextId = c.nextId
  /\ lastHeartbeat = t
  /\ heartbeatTimer = 0
  /\ midnightCheckTimer = 0
  /\ checkpointTimer = 0
  /\ lastKnownDate = NoDate
  /\ lastOp = NoOp
  /\ sleepGap = <<0, 0>>
  /\ archiveCache = <<>>
  /\ tempFiles = {}
  /\ outcome = NoOutcome
  /\ lastCall = NoCall
  /\ immediateSaves = <<>>

\* the archive service over five months: the archive of each past month holds
\* one global and one project session, the file of the coming month is missing,
\* empty or corrupt; or no file exists at all
StoredSession(m) == SampleSession(10 + m - EpochMonth)

StoredFile(m) ==
  [exists |-> TRUE, raw |-> "json", globalSessions |-> <<StoredSession(m)>>,
   projectSessions |-> ("A" :> <<StoredSession(m)>>)]

ServiceDisks ==
  {[m \in Months |-> IF m = EpochMonth + 1 THEN f ELSE StoredFile(m)] :
     f \in {NoFile, EmptyFile, CorruptFile}}
  \cup {[m \in Months |-> NoFile]}

ServiceLists ==
  {<<SampleSession(1)>>, <<SampleSession(1), SampleSession(2)>>,
   <<SampleSession(1), SampleSession(1)>>}

InitService ==
  /\ Loaded(StartTime)
  /\ projectsState = Constructed(StartTime).projectsState
  /\ loadedState = projectsState
  /\ archiveFiles \in ServiceDisks
  /\ opsLeft = MaxServiceOps
  /\ sleepsLeft = 0
  /\ stepsLeft = 0
  /\ ticksLeft = 0

NextService ==
  \/ \E m \in Months, dt \in {0, 1} : LoadArchive(m, dt)
  \/ \E m \in SampleMonths, globalSessions \in ServiceLists, fault \in Faults :
       AppendToArchive(m, globalSessions, ("A" :> globalSessions), fault)
  \/ \E m \in SampleMonths : GetArchivedGlobalSessions(m)
  \/ \E m \in SampleMonths : GetArchivedProjectSessions(m, "A")
  \/ \E m \in SampleMonths : GetArchivedAllProjectSessions(m)
  \/ \E m \in SampleMonths : InvalidateArchiveCache(m)
  \/ ClearArchiveCache

SpecService == InitService /\ [][NextService]_vars

\* writeArchive(year, month, archiveData) called through module.exports: the
\* file is written and the cache is left as it is
WriteArchive(m, archiveData, fault) ==
  /\ opsLeft > 0
  /\ fault = "mkdir" => DirMayBeMissing(archiveFiles, tempFiles)
  /\ LET written == writeArchive(archiveFiles, tempFiles, m, archiveData, fault)
     IN /\ archiveFiles' = written.files
        /\ tempFiles' = written.tempFiles
        /\ outcome' = [NoOutcome EXCEPT !.raised = written.raised]
  /\ lastCall' = [Call(m, archiveData.globalSessions, archiveData.projectSessions, "none")
                   EXCEPT !.fault = fault]
  /\ lastOp' = Op("writeArchive", "none")
  /\ now' = now
  /\ UNCHANGED archiveCache
  /\ ServiceFrame

\* the archive objects a caller hands to writeArchive
WrittenArchives ==
  {[createEmptyArchive EXCEPT !.globalSessions = list, !.projectSessions = ("A" :> list)] :
     list \in ServiceLists}

\* archives written by appendToArchive or by writeArchive itself, and loaded
InitWrite ==
  /\ Loaded(StartTime)
  /\ projectsState = Constructed(StartTime).projectsState
  /\ loadedState = projectsState
  /\ archiveFiles \in ServiceDisks
  /\ opsLeft = MaxWriteOps
  /\ sleepsLeft = 0
  /\ stepsLeft = 0
  /\ ticksLeft = 0

NextWrite ==
  \/ \E m \in SampleMonths, dt \in {0, 1} : LoadArchive(m, dt)
  \/ \E m \in SampleMonths, globalSessions \in ServiceLists :
       AppendToArchive(m, globalSessions, ("A" :> globalSessions), "none")
  \/ \E m \in SampleMonths, archiveData \in WrittenArchives, fault \in Faults \ {"read"} :
       WriteArchive(m, archiveData, fault)
  \/ \E m \in SampleMonths : InvalidateArchiveCache(m)
  \/ ClearArchiveCache

SpecWrite == InitWrite /\ [][NextWrite]_vars

\* signals that arrive before startup has called initTimeTracking
InitPreInit ==
  /\ Loaded(StartTime)
  /\ projectsState = Constructed(StartTime).projectsState
  /\ loadedState = projectsState
  /\ archiveFiles = Constructed(StartTime).archiveFiles
  /\ opsLeft = MaxPreInitOps
  /\ sleepsLeft = 0
  /\ stepsLeft = 0
  /\ ticksLeft = MaxPreInitTicks

NextPreInit ==
  \/ InitTimeTracking
  \/ StartTracking("A")
  \/ StopTracking("A")
  \/ RecordActivity("A")
  \/ RecordOutputActivity("A")
  \/ CheckSleepWake
  \/ CheckMidnightReset
  \/ CheckAndPauseTracking("A")
  \/ CheckAndPauseGlobalTimer
  \/ Advance

SpecPreInit == InitPreInit /\ [][NextPreInit]_vars

\* startup on a snapshot loaded from disk: sessions of the month that ends at
\* the coming midnight, well-formed ones and ones the sanitizer must drop
Stored(id, startTime, endTime, duration) ==
  [id |-> id, startTime |-> startTime, endTime |-> endTime, duration |-> duration]

StoredSamples ==
  {Stored(101, LastDay + 3600000, LastDay + 3900000, 300000),
   Stored(102, LastDay - DayMs + 1000, LastDay + 1000, maxReasonableDuration),
   Stored(103, LastDay - DayMs + 1000, LastDay + 1001, maxReasonableDuration + 1),
   Stored(104, LastDay, LastDay, 0),
   Stored(105, LastDay + 5000, LastDay, 0 - 5000),
   Stored(106, LastDay, LastDay + 5000, NotFinite),
   Stored(107, 0, LastDay + 5000, 5000),
   Stored(108, LastDay, Unparseable, 5000),
   Stored(109, Unparseable, LastDay + 5000, 5000),
   Stored(110, LastDay + 5000, LastDay, 5000),
   Stored(111, LastDay + DayMs + 1000, LastDay + DayMs + 6000, 5000)}

StoredLists == UNION {[1..n -> StoredSamples] : n \in 0..MaxStoredLen}

\* the total the tracker had accumulated when it stored the sessions of list
StoredTotal(list) == SumDurations(SelectSeq(list, LAMBDA x : x.duration > 0))

\* the counters of a stored record: a legacy global record without period
\* counters and anchors, one without counters whose anchors name the week and
\* month of StartTime, and records with counters under old or current anchors;
\* the last active date is absent, more than one day after every StartTimes
\* instant, at most one day after StartTime, or the day of StartTime
StoredCounters ==
  {[weekTime |-> Undefined, monthTime |-> Undefined, weekStart |-> NoDate, monthStart |-> NoDate,
    lastActiveDate |-> NoDate, todayTime |-> 0],
   [weekTime |-> Undefined, monthTime |-> Undefined,
    weekStart |-> getWeekStartString(StartTime), monthStart |-> getMonthString(StartTime),
    lastActiveDate |-> DayOf(StartTime) + 3, todayTime |-> 7000],
   [weekTime |-> 7000, monthTime |-> 7000,
    weekStart |-> getWeekStartString(StartTime) - 7, monthStart |-> getMonthString(StartTime) - 1,
    lastActiveDate |-> DayOf(StartTime) + 1, todayTime |-> 7000],
   [weekTime |-> 7000, monthTime |-> 7000,
    weekStart |-> getWeekStartString(StartTime), monthStart |-> getMonthString(StartTime),
    lastActiveDate |-> DayOf(StartTime), todayTime |-> 7000]}

StoredSnapshot(list, counters) ==
  [projects |-> [q \in Projects |->
                   IF q = "A"
                   THEN [NewTimeTracking EXCEPT !.sessions = list,
                                                !.totalTime = StoredTotal(list),
                                                !.todayTime = counters.todayTime,
                                                !.lastActiveDate = counters.lastActiveDate]
                   ELSE NewTimeTracking],
   globalTimeTracking |-> [NewGlobalTimeTracking EXCEPT !.sessions = list,
                                                        !.totalTime = StoredTotal(list),
                                                        !.todayTime = counters.todayTime,
                                                        !.lastActiveDate = counters.lastActiveDate,
                                                        !.weekTime = counters.weekTime,
                                                        !.monthTime = counters.monthTime,
                                                        !.weekStart = counters.weekStart,
                                                        !.monthStart = counters.monthStart,
                                                        !.exists = TRUE]]

\* a stored snapshot in which the sessions of project A, or of the global
\* record, are not an array (the key is missing, or holds null or a string)
StoredWithoutSessions(counters) ==
  {[StoredSnapshot(<<>>, counters) EXCEPT !.projects["A"].sessionsIsArray = FALSE],
   [StoredSnapshot(<<>>, counters) EXCEPT !.globalTimeTracking.sessionsIsArray = FALSE]}

\* startup before the midnight that ends the month, or after it
StartTimes == {StartTime, StartTime + 2 * MIDNIGHT_CHECK_INTERVAL}

InitStartup ==
  /\ \E t \in StartTimes : Loaded(t)
  /\ \E list \in StoredLists : \E counters \in StoredCounters :
       \/ projectsState = StoredSnapshot(list, counters)
       \/ list = <<>> /\ projectsState \in StoredWithoutSessions(counters)
  /\ loadedState = Constructed(StartTime).projectsState
  /\ archiveFiles = Constructed(StartTime).archiveFiles
  /\ opsLeft = MaxStartupOps
  /\ sleepsLeft = 0
  /\ stepsLeft = 0
  /\ ticksLeft = MaxStartupTicks

NextStartup ==
  \/ InitTimeTracking
  \/ StartTracking("A")
  \/ StopTracking("A")
  \/ CheckSleepWake
  \/ CheckMidnightReset
  \/ Advance

SpecStartup == InitStartup /\ [][NextStartup]_vars

\* start-up on well-formed sessions of three months, with archives that may
\* already hold some of them: sessions that start on the last day of the
\* epoch's month, on the first day of the next month and on the last day of
\* the month before
PassSamples ==
  {Stored(101, LastDay + 3600000, LastDay + 3900000, 300000),
   Stored(111, LastDay + DayMs + 1000, LastDay + DayMs + 6000, 5000),
   Stored(112, PreviousLastDay + 1000, PreviousLastDay + 6000, 5000)}

PassLists == UNION {[1..n -> PassSamples] : n \in 0..MaxPassLen}

\* an archive file that holds the given global list and list of project A
ArchiveOf(globalSessions, sessionsOfA) ==
  [exists |-> TRUE, raw |-> "json", globalSessions |-> globalSessions,
   projectSessions |-> ("A" :> sessionsOfA)]

\* no archive file at all; or, as an earlier run that died before the live
\* snapshot was saved leaves them, the archive of the epoch's month holding
\* session 101 in both lists and that of the month before holding session 112
\* in its global list only
PassDisks ==
  {[m \in Months |-> NoFile],
   [m \in Months |->
      IF m = EpochMonth
      THEN ArchiveOf(<<Stored(101, LastDay + 3600000, LastDay + 3900000, 300000)>>,
                     <<Stored(101, LastDay + 3600000, LastDay + 3900000, 300000)>>)
      ELSE IF m = EpochMonth - 1
           THEN ArchiveOf(<<Stored(112, PreviousLastDay + 1000, PreviousLastDay + 6000,
                                   5000)>>, <<>>)
           ELSE NoFile]}

InitPass ==
  /\ \E t \in StartTimes : Loaded(t)
  /\ \E listOfA \in PassLists, globalList \in {list \in PassLists : Len(list) < MaxPassLen} :
       projectsState =
         [StoredSnapshot(listOfA, [weekTime |-> 7000, monthTime |-> 7000,
                                   weekStart |-> getWeekStartString(StartTime),
                                   monthStart |-> getMonthString(StartTime),
                                   lastActiveDate |-> DayOf(StartTime), todayTime |-> 7000])
            EXCEPT !.globalTimeTracking.sessions = globalList,
                   !.globalTimeTracking.totalTime = StoredTotal(globalList)]
  /\ loadedState = projectsState
  /\ archiveFiles \in PassDisks
  /\ opsLeft = MaxPassOps
  /\ sleepsLeft = 0
  /\ stepsLeft = 0
  /\ ticksLeft = MaxPassTicks

SpecPass == InitPass /\ [][NextStartup]_vars

\* What can go wrong in the writeArchive calls of one archival pass: "write" is
\* writeFileSync or renameSync throwing in every call, which writeArchive catches
PassFaults == {"none", "write"}

\* archivePastMonthSessions at time t under a fault: appendToArchive returns
\* nothing, so the pass replaces the live snapshot whatever writeArchive did
archivePastMonthSessionsUnder(c, t, fault) ==
  LET done == archivePastMonthSessions(c, t)
  IN IF fault = "write" THEN [done EXCEPT !.archiveFiles = c.archiveFiles] ELSE done

initTimeTrackingUnder(c, t, fault) ==
  archivePastMonthSessionsUnder(
    migrateGlobalTimeTracking(
      sanitizeTimeTrackingData([c EXCEPT !.initialized = TRUE], t), t), t, fault)

\* initTimeTracking with the archive writes of its pass succeeding or failing; a
\* fault needs a pass that has something to write
InitTimeTrackingUnder(fault) ==
  /\ opsLeft > 0
  /\ LET c == initTimeTrackingUnder(Cur, now, fault)
     IN /\ fault # "none" => c.archiveFiles # initTimeTracking(Cur, now).archiveFiles
        /\ Commit(c)
        /\ initialized' = c.initialized
  /\ lastKnownDate' = DayOf(now)
  /\ midnightCheckTimer' = now + MIDNIGHT_CHECK_INTERVAL
  /\ lastHeartbeat' = now
  /\ heartbeatTimer' = now + HEARTBEAT_INTERVAL
  /\ checkpointTimer' = now + CHECKPOINT_INTERVAL
  /\ lastOp' = Op("initTimeTracking", "none")
  /\ lastCall' = [NoCall EXCEPT !.fault = fault]
  /\ opsLeft' = opsLeft - 1
  /\ UNCHANGED <<now, sleepGap, sleepsLeft, stepsLeft, ticksLeft, outcome,
                 immediateSaves, loadedState>>

\* the process dies right after initTimeTracking, before the debounced save of
\* the live snapshot has reached the projects file, and is started again: the
\* modules are loaded anew, the projects file is as the first start read it and
\* the archive files are as the first run left them
Restart ==
  /\ opsLeft > 0
  /\ lastOp = Op("initTimeTracking", "none")
  /\ LET c == Constructed(now)
     IN /\ initialized' = c.initialized
        /\ trackingState' = c.trackingState
        /\ idleTimers' = c.idleTimers
        /\ lastOutputTimes' = c.lastOutputTimes
        /\ globalLastOutputTime' = c.globalLastOutputTime
        /\ globalIdleTimer' = c.globalIdleTimer
  /\ projectsState' = loadedState
  /\ heartbeatTimer' = 0
  /\ midnightCheckTimer' = 0
  /\ checkpointTimer' = 0
  /\ lastKnownDate' = NoDate
  /\ archiveCache' = <<>>
  /\ globalTimesCache' = NoTimesCache
  /\ lastOp' = Op("restart", "none")
  /\ opsLeft' = opsLeft - 1
  /\ UNCHANGED <<now, lastHeartbeat, archiveFiles, nextId, sleepGap, sleepsLeft, stepsLeft,
                 ticksLeft, tempFiles, outcome, lastCall, immediateSaves, loadedState>>

\* the archive of the month that ends at the coming midnight: missing, not
\* parseable, or holding sessions archived earlier
CrashDisks ==
  {[m \in Months |-> IF m = EpochMonth THEN f ELSE NoFile] :
     f \in {NoFile, CorruptFile, StoredFile(EpochMonth)}}

\* start-up on a stored snapshot, with archive writes that may fail and a
\* process that may die and restart after initTimeTracking
InitCrash ==
  /\ \E t \in StartTimes : Loaded(t)
  /\ \E list \in StoredLists :
       projectsState =
         StoredSnapshot(list, [weekTime |-> 7000, monthTime |-> 7000,
                               weekStart |-> getWeekStartString(StartTime),
                               monthStart |-> getMonthString(StartTime),
                               lastActiveDate |-> DayOf(StartTime), todayTime |-> 7000])
  /\ loadedState = projectsState
  /\ archiveFiles \in CrashDisks
  /\ opsLeft = MaxCrashOps
  /\ sleepsLeft = 0
  /\ stepsLeft = 0
  /\ ticksLeft = MaxCrashTicks

NextCrash ==
  \/ \E fault \in PassFaults : InitTimeTrackingUnder(fault)
  \/ Restart
  \/ StartTracking("A")
  \/ StopTracking("A")
  \/ CheckSleepWake
  \/ CheckMidnightReset
  \/ Advance

SpecCrash == InitCrash /\ [][NextCrash]_vars

\* two projects, active or idle after a system sleep, and the application quits
InitShutdown ==
  /\ Running(StartTime)
  /\ opsLeft = MaxShutdownOps
  /\ sleepsLeft = MaxShutdownSleeps
  /\ stepsLeft = 0
  /\ ticksLeft = MaxShutdownTicks

NextShutdown ==
  \/ \E projectId \in Projects : StartTracking(projectId)
  \/ SaveAllActiveSessions
  \/ CheckSleepWake
  \/ CheckMidnightReset
  \/ SaveCheckpoints
  \/ \E projectId \in Projects : CheckAndPauseTracking(projectId)
  \/ CheckAndPauseGlobalTimer
  \/ Advance
  \/ Sleep

SpecShutdown == InitShutdown /\ [][NextShutdown]_vars

\* intervals left open while the system sleeps for more than a day
NextLongSleep ==
  \/ \E projectId \in Projects : StartTracking(projectId)
  \/ \E projectId \in Projects : StopTracking(projectId)
  \/ CheckSleepWake
  \/ CheckMidnightReset
  \/ SaveCheckpoints
  \/ \E projectId \in Projects : CheckAndPauseTracking(projectId)
  \/ CheckAndPauseGlobalTimer
  \/ Advance
  \/ LongSleep

SpecLongSleep == InitShutdown /\ [][NextLongSleep]_vars

\* two projects receiving input on a day with no sleep and no date change, up
\* to the first idle timeouts
InitTwo ==
  /\ Running(StartTime + 2 * MIDNIGHT_CHECK_INTERVAL)
  /\ opsLeft = MaxTwoOps
  /\ sleepsLeft = 0
  /\ stepsLeft = 0
  /\ ticksLeft = MaxTwoTicks

NextTwo ==
  \/ \E projectId \in Projects : StartTracking(projectId)
  \/ \E projectId \in Projects : RecordActivity(projectId)
  \/ \E projectId \in Projects : PauseTracking(projectId)
  \/ \E projectId \in Projects : ResumeTracking(projectId)
  \/ CheckSleepWake
  \/ CheckMidnightReset
  \/ SaveCheckpoints
  \/ \E projectId \in Projects : CheckAndPauseTracking(projectId)
  \/ CheckAndPauseGlobalTimer
  \/ Advance

SpecTwo == InitTwo /\ [][NextTwo]_vars

\* two projects started, stopped and resumed around an idle period, and the
\* global interval that follows them
InitGlobal ==
  /\ Running(StartTime)
  /\ opsLeft = MaxGlobalOps
  /\ sleepsLeft = MaxGlobalSleeps
  /\ stepsLeft = 0
  /\ ticksLeft = MaxGlobalTicks

NextGlobal ==
  \/ \E projectId \in Projects : StartTracking(projectId)
  \/ \E projectId \in Projects : StopTracking(projectId)
  \/ \E projectId \in Projects : RecordActivity(projectId)
  \/ \E projectId \in Projects : PauseTracking(projectId)
  \/ \E projectId \in Projects : ResumeTracking(projectId)
  \/ \E oldProjectId \in Projects, newProjectId \in Projects \cup {"none"} :
       SwitchProject(oldProjectId, newProjectId)
  \/ CheckSleepWake
  \/ CheckMidnightReset
  \/ SaveCheckpoints
  \/ \E projectId \in Projects : CheckAndPauseTracking(projectId)
  \/ CheckAndPauseGlobalTimer
  \/ Advance
  \/ Sleep

SpecGlobal == InitGlobal /\ [][NextGlobal]_vars

\* two projects, none or one of them tracked since the start, around a system
\* sleep: starts, stops, input, pauses and resumes
InitPair ==
  /\ \E c \in FreshOrTracking(StartTime) : RunningIn(c, StartTime)
  /\ opsLeft = MaxPairOps
  /\ sleepsLeft = MaxPairSleeps
  /\ stepsLeft = 0
  /\ ticksLeft = MaxPairTicks

NextPair ==
  \/ \E projectId \in Projects : StartTracking(projectId)
  \/ \E projectId \in Projects : StopTracking(projectId)
  \/ \E projectId \in Projects : RecordActivity(projectId)
  \/ \E projectId \in Projects : PauseTracking(projectId)
  \/ \E projectId \in Projects : ResumeTracking(projectId)
  \/ CheckSleepWake
  \/ CheckMidnightReset
  \/ SaveCheckpoints
  \/ \E projectId \in Projects : CheckAndPauseTracking(projectId)
  \/ CheckAndPauseGlobalTimer
  \/ Advance
  \/ Sleep

SpecPair == InitPair /\ [][NextPair]_vars

\* two projects with terminal output, idle or active across a system sleep
\* that spans a midnight
InitTracked ==
  /\ Running(StartTime)
  /\ opsLeft = MaxTrackedOps
  /\ sleepsLeft = MaxTrackedSleeps
  /\ stepsLeft = 0
  /\ ticksLeft = MaxTrackedTicks

NextTracked ==
  \/ \E projectId \in Projects : StartTracking(projectId)
  \/ \E projectId \in Projects : RecordOutputActivity(projectId)
  \/ \E projectId \in Projects : PauseTracking(projectId)
  \/ \E projectId \in Projects : ResumeTracking(projectId)
  \/ CheckSleepWake
  \/ CheckMidnightReset
  \/ SaveCheckpoints
  \/ \E projectId \in Projects : CheckAndPauseTracking(projectId)
  \/ CheckAndPauseGlobalTimer
  \/ Advance
  \/ Sleep

SpecTracked == InitTracked /\ [][NextTracked]_vars

\* ------------------------------------------------------- persisted sessions
ListSet(list) == {list[i] : i \in 1..Len(list)}

\* every session persisted for a project: its live list and its lists in the archives
ProjectPersisted(projectId) ==
  ListSet(projectsState.projects[projectId].sessions)
    \cup UNION {ListSet(archiveFiles[m].projectSessions[projectId]) :
                  m \in {k \in Months : projectId \in DOMAIN archiveFiles[k].projectSessions}}

GlobalPersisted ==
  ListSet(projectsState.globalTimeTracking.sessions)
    \cup UNION {ListSet(archiveFiles[m].globalSessions) : m \in Months}

AllPersisted == GlobalPersisted \cup UNION {ProjectPersisted(q) : q \in Projects}

Interval(startTime, endTime, x) ==
  x.startTime = startTime /\ x.endTime = endTime /\ x.duration = endTime - startTime

Overlap(x, y) == x.startTime < y.endTime /\ y.startTime < x.endTime

TrackedNow(projectId) == projectId \in DOMAIN trackingState.activeSessions

\* a variant that answers yes for every tracked project
isTrackingIdleToo(projectId) == TrackedNow(projectId)

\* isTracking(projectId): "session && session.sessionStartTime && !session.isIdle"
ActiveNow(projectId) ==
  TrackedNow(projectId) /\ IsActive(trackingState.activeSessions[projectId])

IdleNow(projectId) ==
  TrackedNow(projectId) /\ trackingState.activeSessions[projectId].isIdle

SessionStartOf(projectId) == trackingState.activeSessions[projectId].sessionStartTime

\* ------------------------------------------------------------------- claims

\* C1: no persisted session covers any part of a system sleep longer than
\* 2 minutes, whatever the order in which the callbacks due at wake-up run.
NoSessionCoversSleep ==
  sleepGap[2] - sleepGap[1] > SLEEP_GAP_THRESHOLD =>
    \A x \in AllPersisted : ~(x.startTime < sleepGap[2] /\ x.endTime > sleepGap[1])

\* C2: the persisted sessions of one project, and those of the global
\* aggregate, are pairwise non-overlapping in time.
DisjointSessions(sessions) ==
  \A x \in sessions : \A y \in sessions : x.id # y.id => ~Overlap(x, y)

NoSessionOverlap ==
  /\ \A q \in Projects : DisjointSessions(ProjectPersisted(q))
  /\ DisjointSessions(GlobalPersisted)

\* the sessions persisted by the step, for a project and for the global aggregate
NewProjectSessions(projectId) == ProjectPersisted(projectId)' \ ProjectPersisted(projectId)

NewGlobalSessions == GlobalPersisted' \ GlobalPersisted

GlobalActiveNow == GlobalActive(trackingState)

\* C3: a heartbeat tick that sees more than 2 minutes since the previous tick
\* t1 persists, for every active interval with sessionStart t0 and
\* t1 - t0 > 1 s, exactly one session [t0, t1] of duration t1 - t0, and
\* reopens the interval at the tick time, still active.
SleepWakeCut ==
  [][(lastOp'.name = "checkSleepWake" /\ now - lastHeartbeat > SLEEP_GAP_THRESHOLD) =>
       /\ \A q \in Projects :
            (ActiveNow(q) /\ lastHeartbeat - SessionStartOf(q) > MIN_DURATION) =>
              /\ \E x \in NewProjectSessions(q) :
                   /\ NewProjectSessions(q) = {x}
                   /\ Interval(SessionStartOf(q), lastHeartbeat, x)
              /\ ActiveNow(q)'
              /\ SessionStartOf(q)' = now
       /\ (GlobalActiveNow /\ lastHeartbeat - trackingState.globalSessionStartTime > MIN_DURATION) =>
            /\ \E x \in NewGlobalSessions :
                 /\ NewGlobalSessions = {x}
                 /\ Interval(trackingState.globalSessionStartTime, lastHeartbeat, x)
            /\ GlobalActiveNow'
            /\ trackingState'.globalSessionStartTime = now]_vars

\* C3 witness: the heartbeat after the sleep has just cut project A and the
\* global interval at the last tick before the sleep and reopened both at wake-up
SleepWakeCutDone ==
  /\ lastOp.name = "checkSleepWake"
  /\ sleepGap[2] = now
  /\ ActiveNow("A") /\ SessionStartOf("A") = now
  /\ GlobalActiveNow /\ trackingState.globalSessionStartTime = now
  /\ \E x \in ProjectPersisted("A") :
       x.id = nextId - 1 /\ x.endTime <= sleepGap[1] /\ x.duration > MIN_DURATION
  /\ \E x \in GlobalPersisted :
       x.id = nextId - 2 /\ x.endTime <= sleepGap[1] /\ x.duration > MIN_DURATION

\* a midnight-check tick that detects a date change
MidnightDetected ==
  /\ lastOp'.name = "checkMidnightReset"
  /\ lastKnownDate # NoDate
  /\ lastKnownDate # DayOf(now)

\* every close of an interval persists [sessionStart, c] with duration c - sessionStart
CloseFromSessionStart ==
  /\ \A q \in Projects : \A x \in NewProjectSessions(q) :
       /\ ActiveNow(q)
       /\ x.startTime = SessionStartOf(q)
       /\ x.duration = x.endTime - x.startTime
  /\ \A x \in NewGlobalSessions :
       /\ GlobalActiveNow
       /\ x.startTime = trackingState.globalSessionStartTime
       /\ x.duration = x.endTime - x.startTime

\* C4 as stated: whenever an interval is active with sessionStart s before the
\* local midnight M and the midnight check detects the new date, a session
\* [s, M] is persisted and sessionStart becomes M.
MidnightSplitAlways ==
  [][MidnightDetected =>
       /\ \A q \in Projects :
            (ActiveNow(q) /\ SessionStartOf(q) < MidnightOf(now)) =>
              /\ \E x \in NewProjectSessions(q) :
                   Interval(SessionStartOf(q), MidnightOf(now), x)
              /\ SessionStartOf(q)' = MidnightOf(now)
       /\ (GlobalActiveNow /\ trackingState.globalSessionStartTime < MidnightOf(now)) =>
            /\ \E x \in NewGlobalSessions :
                 Interval(trackingState.globalSessionStartTime, MidnightOf(now), x)
            /\ trackingState'.globalSessionStartTime = MidnightOf(now)]_vars

\* C4 amended: the session [s, M] is persisted when M - s > 1 s (a shorter
\* pre-midnight portion is dropped); sessionStart becomes exactly M in either
\* case, and every later close persists [sessionStart, c] with duration
\* c - sessionStart, so the two sessions meet at M and sum to c - s.
MidnightSplit ==
  [][/\ CloseFromSessionStart
     /\ MidnightDetected =>
          /\ \A q \in Projects :
               (ActiveNow(q) /\ SessionStartOf(q) < MidnightOf(now)) =>
                 /\ IF MidnightOf(now) - SessionStartOf(q) > MIN_DURATION
                    THEN \E x \in NewProjectSessions(q) :
                           /\ NewProjectSessions(q) = {x}
                           /\ Interval(SessionStartOf(q), MidnightOf(now), x)
                    ELSE NewProjectSessions(q) = {}
                 /\ ActiveNow(q)'
                 /\ SessionStartOf(q)' = MidnightOf(now)
          /\ (GlobalActiveNow /\ trackingState.globalSessionStartTime < MidnightOf(now)) =>
               /\ IF MidnightOf(now) - trackingState.globalSessionStartTime > MIN_DURATION
                  THEN \E x \in NewGlobalSessions :
                         /\ NewGlobalSessions = {x}
                         /\ Interval(trackingState.globalSessionStartTime, MidnightOf(now), x)
                  ELSE NewGlobalSessions = {}
               /\ GlobalActiveNow'
               /\ trackingState'.globalSessionStartTime = MidnightOf(now)]_vars

\* C4 witness: project A was split at midnight and has since been closed: its
\* two sessions meet at midnight
MidnightSplitDone ==
  /\ lastKnownDate = DayOf(now)
  /\ sleepGap = <<0, 0>>
  /\ \E x \in ProjectPersisted("A") : \E y \in ProjectPersisted("A") :
       /\ x.endTime = MidnightOf(now)
       /\ y.startTime = MidnightOf(now)
       /\ x.startTime < x.endTime /\ y.startTime < y.endTime
       /\ x.duration + y.duration = y.endTime - x.startTime

\* the part of a session that lies on or after the instant from
OnOrAfter(x, from) ==
  LET start == IF x.startTime > from THEN x.startTime ELSE from
  IN IF x.endTime > start THEN x.endTime - start ELSE 0

RECURSIVE TimeOnOrAfter(_, _)
TimeOnOrAfter(sessions, from) ==
  IF sessions = {} THEN 0
  ELSE LET x == CHOOSE y \in sessions : TRUE
       IN OnOrAfter(x, from) + TimeOnOrAfter(sessions \ {x}, from)

\* C5: once the midnight split for the current date has run, a todayTime
\* counter whose lastActiveDate is that date holds only time that elapsed on
\* or after the local midnight of that date.
TodayTimeWithinToday ==
  lastKnownDate = DayOf(now) =>
    /\ \A q \in Projects :
         projectsState.projects[q].lastActiveDate = DayOf(now) =>
           projectsState.projects[q].todayTime
             <= TimeOnOrAfter(ProjectPersisted(q), MidnightOf(now))
    /\ projectsState.globalTimeTracking.lastActiveDate = DayOf(now) =>
         projectsState.globalTimeTracking.todayTime
           <= TimeOnOrAfter(GlobalPersisted, MidnightOf(now))

\* getActiveProjectCount
getActiveProjectCount == Cardinality({q \in Projects : ActiveNow(q)})

\* the first three steps of the two-project scenario: start a from no tracked
\* project, start b, stop a
ConcurrentStarts(a, b) ==
  /\ (lastOp' = Op("startTracking", a) /\ DOMAIN trackingState.activeSessions = {}) =>
       /\ ActiveNow(a)' /\ SessionStartOf(a)' = now
       /\ GlobalActiveNow' /\ trackingState'.globalSessionStartTime = now
  /\ (/\ lastOp' = Op("startTracking", b)
      /\ DOMAIN trackingState.activeSessions = {a} /\ ActiveNow(a)
      /\ GlobalActiveNow /\ trackingState.globalSessionStartTime = SessionStartOf(a)) =>
       /\ getActiveProjectCount' = 2
       /\ GlobalActiveNow'
       /\ trackingState'.globalSessionStartTime = SessionStartOf(a)'
       /\ trackingState'.globalSessionStartTime = trackingState.globalSessionStartTime
  /\ (lastOp' = Op("stopTracking", a) /\ ActiveNow(a) /\ ActiveNow(b) /\ GlobalActiveNow) =>
       /\ GlobalActiveNow'
       /\ trackingState'.globalSessionStartTime = trackingState.globalSessionStartTime
       /\ NewGlobalSessions = {}

\* the last step: b, the only tracked project, is stopped
LastStop(a, b) ==
  /\ lastOp' = Op("stopTracking", b)
  /\ ActiveNow(b) /\ ~TrackedNow(a)
  /\ GlobalActiveNow

\* C6 as stated: start A, start B gives count 2 with the global interval
\* started at A's start; stopping A leaves it running unchanged; stopping B
\* persists one global session from the global sessionStart to the stop time
\* and leaves the global interval not running.
ConcurrentEntitiesAlways ==
  [][\A a \in Projects : \A b \in Projects \ {a} :
       /\ ConcurrentStarts(a, b)
       /\ LastStop(a, b) =>
            /\ \E x \in NewGlobalSessions :
                 /\ NewGlobalSessions = {x}
                 /\ Interval(trackingState.globalSessionStartTime, now, x)
            /\ ~GlobalActiveNow']_vars

\* C6 amended: as stated, except that stopping B persists the global session
\* only when more than 1 s has passed since the global sessionStart; a shorter
\* trailing portion is dropped.  The global interval stops in either case.
ConcurrentEntities ==
  [][\A a \in Projects : \A b \in Projects \ {a} :
       /\ ConcurrentStarts(a, b)
       /\ LastStop(a, b) =>
            /\ IF now - trackingState.globalSessionStartTime > MIN_DURATION
               THEN \E x \in NewGlobalSessions :
                      /\ NewGlobalSessions = {x}
                      /\ Interval(trackingState.globalSessionStartTime, now, x)
               ELSE NewGlobalSessions = {}
            /\ ~GlobalActiveNow'
            /\ trackingState'.globalSessionStartTime = 0]_vars

\* C6 witness: A and B were started, A was stopped, B has just been stopped, and
\* the one global session runs from A's start to B's stop
ConcurrentEntitiesDone ==
  /\ lastOp = Op("stopTracking", "B")
  /\ opsLeft = MaxConcOps - 4
  /\ DOMAIN trackingState.activeSessions = {}
  /\ ~GlobalActiveNow
  /\ \E xa \in ProjectPersisted("A") : \E xb \in ProjectPersisted("B") :
       /\ xa.startTime <= xb.startTime
       /\ xa.endTime < xb.endTime
       /\ GlobalPersisted = {[xb EXCEPT !.id = nextId - 1, !.startTime = xa.startTime,
                                        !.duration = xb.endTime - xa.startTime]}

\* the idle timeout of projectId fires and no output is recent: the pause
PauseStep(projectId) ==
  /\ lastOp' = Op("checkAndPauseTracking", projectId)
  /\ ActiveNow(projectId)
  /\ now - lastOutputTimes[projectId] >= OUTPUT_IDLE_TIMEOUT

\* an input on a project that is not active: the interval is (re)opened at the
\* time of the input and its idle timeout armed 15 minutes ahead
InputOpens(projectId) ==
  (/\ lastOp' \in {Op("startTracking", projectId), Op("recordActivity", projectId)}
   /\ ~ActiveNow(projectId)) =>
     /\ ActiveNow(projectId)'
     /\ SessionStartOf(projectId)' = now
     /\ idleTimers'[projectId] = now + IDLE_TIMEOUT

\* a project that stays idle gets no session
IdleGetsNoSession(projectId) ==
  (IdleNow(projectId) /\ IdleNow(projectId)') =>
     ProjectPersisted(projectId)' = ProjectPersisted(projectId)

\* the instants at which the formula of C7 looks at an idle project: the
\* deadline of the idle timeout of a project tracked from EveningStart, and
\* the deadline of the midnight check that follows it
IdleInstants ==
  {EveningStart + IDLE_TIMEOUT, EveningStart + IDLE_TIMEOUT + MIDNIGHT_CHECK_INTERVAL}

\* C7, all of it but the length of the session that the pause persists: the
\* idle timeout of an active project makes the project idle, with sessionStart
\* absent; a project that stays idle gets no session; a later recordActivity
\* at time r reopens the interval with sessionStart = r and arms the timeout
\* 15 minutes ahead; and no session persisted for the project, then or later,
\* covers an instant at which the project was idle.
IdleTimeUncounted ==
  /\ [][\A q \in Projects :
          /\ InputOpens(q)
          /\ IdleGetsNoSession(q)
          /\ PauseStep(q) => (IdleNow(q)' /\ SessionStartOf(q)' = 0)]_vars
  /\ \A q \in Projects : \A t \in IdleInstants :
       []((IdleNow(q) /\ now = t) =>
            [](\A x \in ProjectPersisted(q) : ~(x.startTime < t /\ t < x.endTime)))

\* C8: a firing of the idle timeout of an active project whose last output is
\* less than 2 minutes old does not pause it: the project stays active, no
\* session is emitted and the timeout is pending again; nothing but a firing
\* with stale output, or a call of pauseTracking that is no firing, makes an
\* active project idle.
OutputDefersIdle ==
  [][\A q \in Projects :
       /\ (/\ lastOp' = Op("checkAndPauseTracking", q)
           /\ ActiveNow(q)
           /\ now - lastOutputTimes[q] < OUTPUT_IDLE_TIMEOUT) =>
            /\ trackingState' = trackingState
            /\ NewProjectSessions(q) = {}
            /\ NewGlobalSessions = {}
            /\ idleTimers'[q] > now
       /\ (ActiveNow(q) /\ IdleNow(q)') =>
            \/ lastOp' = Op("pauseTracking", q)
            \/ /\ lastOp' = Op("checkAndPauseTracking", q)
               /\ now - lastOutputTimes[q] >= OUTPUT_IDLE_TIMEOUT]_vars

\* C8 witness: the idle timeout of A has fired 15 minutes or more after the
\* last input, found output less than 2 minutes old and left A active
OutputDeferredIdle ==
  /\ lastOp = Op("checkAndPauseTracking", "A")
  /\ ActiveNow("A")
  /\ opsLeft = MaxIdleOps - 2
  /\ lastOutputTimes["A"] # 0
  /\ now - lastOutputTimes["A"] < OUTPUT_IDLE_TIMEOUT
  /\ idleTimers["A"] > now
  /\ now >= StartTime + IDLE_TIMEOUT
  /\ ProjectPersisted("A") # {}

\* C9: recordOutputActivity changes no interval, of any project or of the
\* global aggregate, persists nothing, and on a project that is idle or not
\* tracked records no output timestamp.
OutputKeepsTracking ==
  [][\A q \in Projects :
       lastOp' = Op("recordOutputActivity", q) =>
         /\ trackingState' = trackingState
         /\ projectsState' = projectsState
         /\ archiveFiles' = archiveFiles
         /\ (~TrackedNow(q) \/ IdleNow(q)) =>
              /\ lastOutputTimes' = lastOutputTimes
              /\ globalLastOutputTime' = globalLastOutputTime]_vars

\* C9 witness: output has just arrived for the idle project A and was not recorded
OutputOnIdleIgnored ==
  /\ lastOp = Op("recordOutputActivity", "A")
  /\ IdleNow("A")
  /\ SessionStartOf("A") = 0
  /\ lastOutputTimes["A"] = 0
  /\ globalLastOutputTime = 0

\* C10: no id occurs twice within an archive's globalSessions nor within any
\* one project's sessions list.
NoDuplicateIds(list) ==
  \A i \in 1..Len(list) : \A j \in 1..Len(list) : i # j => list[i].id # list[j].id

NoDuplicateArchiveIds ==
  \A m \in Months :
    /\ NoDuplicateIds(archiveFiles[m].globalSessions)
    /\ \A q \in DOMAIN archiveFiles[m].projectSessions :
         NoDuplicateIds(archiveFiles[m].projectSessions[q])

\* how often an id occurs in a list of sessions
Occurrences(list, id) == Cardinality({i \in 1..Len(list) : list[i].id = id})

\* the call that has just returned repeats the call before it
SameCallAgain ==
  /\ lastOp = Op("appendToArchive", "none")
  /\ lastOp' = Op("appendToArchive", "none")
  /\ lastCall' = lastCall

\* every id of the input of the last call occurs once in the month's archive
InputOnceIn(file, call) ==
  /\ \A id \in SessionIds(call.globalSessions) : Occurrences(file.globalSessions, id) = 1
  /\ \A q \in DOMAIN call.projectSessionsMap :
       /\ q \in DOMAIN file.projectSessions
       /\ \A id \in SessionIds(call.projectSessionsMap[q]) :
            Occurrences(file.projectSessions[q], id) = 1

\* C11: appendToArchive called a second time with the same sessions leaves the
\* month's archive as the first call left it, and every id of the input occurs
\* exactly once in globalSessions, respectively in its project's sessions.
AppendTwiceAsOnce ==
  [][SameCallAgain =>
       /\ archiveFiles' = archiveFiles
       /\ InputOnceIn(archiveFiles'[lastCall'.month], lastCall')]_vars

\* the sessions of old are the first sessions of new, in the same order
KeepsSessions(old, new) ==
  /\ Len(old) <= Len(new)
  /\ SubSeq(new, 1, Len(old)) = old

KeepsArchive(old, new) ==
  /\ KeepsSessions(old.globalSessions, new.globalSessions)
  /\ \A q \in DOMAIN old.projectSessions :
       /\ q \in DOMAIN new.projectSessions
       /\ KeepsSessions(old.projectSessions[q], new.projectSessions[q])

\* appendToArchive has just returned and its write went through
Appended ==
  /\ lastOp' = Op("appendToArchive", "none")
  /\ lastCall'.fault = "none"

\* loadArchive has just returned for the month of the append before it
LoadedAfterAppend ==
  /\ lastOp = Op("appendToArchive", "none")
  /\ lastCall.fault = "none"
  /\ lastOp' = Op("loadArchive", "none")
  /\ lastCall'.month = lastCall.month

\* C12: after an appendToArchive whose write succeeds, the month's archive holds
\* every session of G and of P exactly once and all sessions it held before,
\* the month is no longer cached, and loadArchive returns that archive.
AppendThenLoad ==
  [][/\ Appended =>
          /\ InputOnceIn(archiveFiles'[lastCall'.month], lastCall')
          /\ KeepsArchive(readArchiveFromDisk(archiveFiles, lastCall'.month),
                          archiveFiles'[lastCall'.month])
          /\ ~CacheHas(archiveCache', lastCall'.month)
     /\ LoadedAfterAppend =>
          /\ outcome'.data = archiveFiles[lastCall.month]
          /\ InputOnceIn(outcome'.data, lastCall)]_vars

\* one of the four input signals has just been handled
SignalNames == {"startTracking", "stopTracking", "recordActivity", "recordOutputActivity"}

\* C13: startTracking, stopTracking, recordActivity and recordOutputActivity
\* called before initTimeTracking have no effect: the tracked projects, the
\* global interval, all timers and the output timestamps stay as they were, and
\* nothing is persisted.
SignalsBeforeInitIgnored ==
  [][(~initialized /\ lastOp'.name \in SignalNames) =>
       /\ trackingState' = trackingState
       /\ idleTimers' = idleTimers
       /\ globalIdleTimer' = globalIdleTimer
       /\ lastOutputTimes' = lastOutputTimes
       /\ globalLastOutputTime' = globalLastOutputTime
       /\ projectsState' = projectsState
       /\ archiveFiles' = archiveFiles]_vars

\* the month-change midnight tick has not run yet
MonthChangePending == MonthOf(lastKnownDate * DayMs) # MonthOf(now)

LiveLists ==
  {projectsState.projects[q].sessions : q \in Projects}
    \cup {projectsState.globalTimeTracking.sessions}

ArchiveLists(m) ==
  {archiveFiles[m].projectSessions[q] : q \in DOMAIN archiveFiles[m].projectSessions}
    \cup {archiveFiles[m].globalSessions}

\* the live lists hold sessions of the current month only, and every archive
\* sessions of its own month only
CurrentMonthOnly ==
  /\ \A list \in LiveLists : \A i \in 1..Len(list) :
       MonthOf(list[i].startTime) = MonthOf(now)
  /\ \A m \in Months : \A list \in ArchiveLists(m) : \A i \in 1..Len(list) :
       MonthOf(list[i].startTime) = m

\* session x, persisted by the step for the entity with live list liveAfter
\* and archive list archived in the month of x: a session that starts in the
\* current month is appended to the live list, any other one to the archive
\* of its month and not to the live list
ClosedInItsMonth(x, liveAfter, archived) ==
  IF MonthOf(x.startTime) = MonthOf(now)
  THEN x \in ListSet(liveAfter) /\ x \notin ListSet(archived)
  ELSE x \in ListSet(archived) /\ x \notin ListSet(liveAfter)

\* C14: once init's archival pass (of the first or of a later call) or a
\* month-change midnight tick has completed, every session of the live global
\* list and of every project's live list starts in the current calendar month
\* (and every session of an archive in that archive's month), and this stays
\* so after every session the tracker emits until the next month change; a
\* closed interval whose startTime lies in another month is appended to that
\* month's archive and not to the live list.
LiveSessionsCurrentMonth ==
  /\ []((initialized /\ ~MonthChangePending) => CurrentMonthOnly)
  /\ [][initialized =>
          /\ \A q \in Projects : \A x \in NewProjectSessions(q) :
               ClosedInItsMonth(x, projectsState'.projects[q].sessions,
                                IF q \in DOMAIN archiveFiles'[MonthOf(x.startTime)].projectSessions
                                THEN archiveFiles'[MonthOf(x.startTime)].projectSessions[q]
                                ELSE <<>>)
          /\ \A x \in NewGlobalSessions :
               ClosedInItsMonth(x, projectsState'.globalTimeTracking.sessions,
                                archiveFiles'[MonthOf(x.startTime)].globalSessions)]_vars

\* C14 witness: A was started before the midnight that ends the month and
\* stopped after it, before the midnight check had run: the session, which
\* starts in the old month, is in the old month's archive and in no live list;
\* the month-change tick has run since and the live lists hold no session of
\* the old month
MonthChangeArchived ==
  /\ initialized /\ ~MonthChangePending
  /\ MonthOf(now) = EpochMonth + 1
  /\ lastOp = Op("checkMidnightReset", "none")
  /\ ~TrackedNow("A")
  /\ \E x \in ListSet(IF "A" \in DOMAIN archiveFiles[EpochMonth].projectSessions
                       THEN archiveFiles[EpochMonth].projectSessions["A"] ELSE <<>>) :
       /\ x.startTime = StartTime
       /\ MonthOf(x.endTime) = EpochMonth + 1
       /\ x \notin ListSet(projectsState.projects["A"].sessions)
  /\ \E x \in ListSet(archiveFiles[EpochMonth].globalSessions) :
       /\ x.startTime = StartTime
       /\ MonthOf(x.endTime) = EpochMonth + 1
       /\ x \notin ListSet(projectsState.globalTimeTracking.sessions)
  /\ CurrentMonthOnly

\* a session as a sanitized list may hold it: a finite duration above 0 and at
\* most 24 hours, a startTime and an endTime that are present and parseable,
\* and an endTime not before the startTime
WellFormed(x) ==
  /\ x.duration # NotFinite /\ 0 < x.duration /\ x.duration <= 24 * 60 * 60 * 1000
  /\ x.startTime # 0 /\ x.startTime # Unparseable
  /\ x.endTime # 0 /\ x.endTime # Unparseable
  /\ x.endTime >= x.startTime

Count(list, x) == Cardinality({i \in 1..Len(list) : list[i] = x})

\* how often session x is held for project q, live or archived
HeldForProject(ps, files, q, x) ==
  Count(ps.projects[q].sessions, x)
    + Cardinality(UNION {{<<m, i>> : i \in {j \in 1..Len(files[m].projectSessions[q]) :
                                              files[m].projectSessions[q][j] = x}} :
                           m \in {k \in Months : q \in DOMAIN files[k].projectSessions}})

\* how often session x is held in the global lists, live or archived
HeldGlobally(ps, files, x) ==
  Count(ps.globalTimeTracking.sessions, x)
    + Cardinality(UNION {{<<m, i>> : i \in {j \in 1..Len(files[m].globalSessions) :
                                              files[m].globalSessions[j] = x}} :
                           m \in Months})

\* the step is a call of initTimeTracking, the first one or a later one
InitStep == opsLeft' # opsLeft /\ lastOp' = Op("initTimeTracking", "none")

\* C15: the sanitization of initTimeTracking, at the first call and at every
\* later one, leaves in every list exactly the sessions held before with a
\* finite duration 0 < d <= 24 h, a present and parseable startTime and
\* endTime, and endTime >= startTime: every other session is removed, and
\* none of these is.
SanitizeKeepsWellFormed ==
  [][InitStep =>
       /\ \A list \in LiveLists' \cup UNION {ArchiveLists(m)' : m \in Months} :
            \A i \in 1..Len(list) : WellFormed(list[i])
       /\ \A x \in StoredSamples \cup AllPersisted :
            /\ \A q \in Projects :
                 HeldForProject(projectsState', archiveFiles', q, x)
                   = IF WellFormed(x)
                     THEN HeldForProject(projectsState, archiveFiles, q, x) ELSE 0
            /\ HeldGlobally(projectsState', archiveFiles', x)
                 = IF WellFormed(x)
                   THEN HeldGlobally(projectsState, archiveFiles, x) ELSE 0]_vars

\* C15 witness: initTimeTracking has run on a snapshot that held the session
\* of exactly 24 hours and a longer one; only the first is left
SanitizedOnInit ==
  /\ lastOp = Op("initTimeTracking", "none")
  /\ projectsState.projects["A"].totalTime = 2 * maxReasonableDuration + 1
  /\ Len(projectsState.projects["A"].sessions) = 1
  /\ projectsState.projects["A"].sessions[1].duration = maxReasonableDuration
  /\ Len(projectsState.globalTimeTracking.sessions) = 1

\* C16: when a step of writing an archive fails (creating the directory,
\* writing the temporary file, renaming it), no exception reaches the caller of
\* appendToArchive, no temporary file of the archive remains, and every
\* archive file keeps its previous content.
WriteFailureContained ==
  [][(opsLeft' # opsLeft /\ lastOp' = Op("appendToArchive", "none")
        /\ lastCall'.fault # "none") =>
       /\ ~outcome'.raised
       /\ lastCall'.month \notin tempFiles'
       /\ archiveFiles' = archiveFiles]_vars

\* the step is a call of saveAllActiveSessions
ShutdownStep == opsLeft' # opsLeft /\ lastOp' = Op("saveAllActiveSessions", "none")

\* the runtime state is empty and every timer is cancelled
ShutDown ==
  /\ trackingState = [activeSessions |-> <<>>, globalSessionStartTime |-> 0,
                      globalLastActivityTime |-> 0, globalIsIdle |-> FALSE]
  /\ \A q \in Projects : idleTimers[q] = 0
  /\ globalIdleTimer = 0
  /\ heartbeatTimer = 0 /\ midnightCheckTimer = 0 /\ checkpointTimer = 0

\* the immediate save ran once in the step, on the live snapshot as the step
\* leaves it
SavedImmediatelyOnce ==
  /\ Len(immediateSaves') = Len(immediateSaves) + 1
  /\ immediateSaves'[Len(immediateSaves')] = projectsState'

\* the snapshot written by the immediate save of the step
SavedSnapshot == immediateSaves'[Len(immediateSaves')]

\* session x, persisted by the step, is in the live list saved of the snapshot
\* written by the immediate save
InSavedSnapshot(x, saved) == x \in ListSet(saved)

\* session x, persisted by the step, is in the live list saved of the snapshot
\* written by the immediate save if it starts in the current month, and else
\* in the list archived of the archive of its month and not in the snapshot
InSavedSnapshotOrArchive(x, saved, archived) ==
  IF MonthOf(x.startTime) = MonthOf(now)
  THEN x \in ListSet(saved)
  ELSE x \in ListSet(archived) /\ x \notin ListSet(saved)

\* C17 as stated: saveAllActiveSessions persists exactly one session
\* [sessionStart, now] for each active entity and one for the global interval
\* if it is active, nothing for idle intervals, then empties the runtime state,
\* cancels every timer and calls the immediate save exactly once, after all
\* the sessions are in the live snapshot.
ShutdownSavesEveryActive ==
  [][ShutdownStep =>
       /\ \A q \in Projects :
            IF ActiveNow(q)
            THEN \E x \in NewProjectSessions(q) :
                   /\ NewProjectSessions(q) = {x}
                   /\ Interval(SessionStartOf(q), now, x)
                   /\ InSavedSnapshot(x, SavedSnapshot.projects[q].sessions)
            ELSE NewProjectSessions(q) = {}
       /\ IF GlobalActiveNow
          THEN \E x \in NewGlobalSessions :
                 /\ NewGlobalSessions = {x}
                 /\ Interval(trackingState.globalSessionStartTime, now, x)
                 /\ InSavedSnapshot(x, SavedSnapshot.globalTimeTracking.sessions)
          ELSE NewGlobalSessions = {}
       /\ ShutDown'
       /\ SavedImmediatelyOnce]_vars

\* C17, amended: saveAllActiveSessions persists exactly one session
\* [sessionStart, now] for each active entity with more than 1 s elapsed and
\* one for the global interval if it is active with more than 1 s elapsed,
\* nothing for idle intervals and for intervals of at most 1 s, then empties
\* the runtime state, cancels every idle timer and the heartbeat, midnight and
\* checkpoint timers, and calls the immediate save exactly once, after each of
\* these sessions is in the live snapshot or, if its startTime lies outside
\* the current calendar month, in the archive of its month and not in the
\* live snapshot.
ShutdownSaves ==
  [][ShutdownStep =>
       /\ \A q \in Projects :
            IF ActiveNow(q) /\ now - SessionStartOf(q) > MIN_DURATION
            THEN \E x \in NewProjectSessions(q) :
                   /\ NewProjectSessions(q) = {x}
                   /\ Interval(SessionStartOf(q), now, x)
                   /\ InSavedSnapshotOrArchive(
                        x, SavedSnapshot.projects[q].sessions,
                        IF q \in DOMAIN archiveFiles'[MonthOf(x.startTime)].projectSessions
                        THEN archiveFiles'[MonthOf(x.startTime)].projectSessions[q]
                        ELSE <<>>)
            ELSE NewProjectSessions(q) = {}
       /\ IF GlobalActiveNow /\ now - trackingState.globalSessionStartTime > MIN_DURATION
          THEN \E x \in NewGlobalSessions :
                 /\ NewGlobalSessions = {x}
                 /\ Interval(trackingState.globalSessionStartTime, now, x)
                 /\ InSavedSnapshotOrArchive(
                      x, SavedSnapshot.globalTimeTracking.sessions,
                      archiveFiles'[MonthOf(x.startTime)].globalSessions)
          ELSE NewGlobalSessions = {}
       /\ ShutDown'
       /\ SavedImmediatelyOnce]_vars

\* C17 witness: the application quit some time after a system sleep, while
\* project A was idle since the wake-up and project B, started at the
\* wake-up, and the global interval were active; B's session and the global
\* one are the last two persisted and the live lists of the one snapshot
\* written hold them
ShutdownDone ==
  /\ lastOp = Op("saveAllActiveSessions", "none")
  /\ ShutDown
  /\ Len(immediateSaves) = 1 /\ immediateSaves[1] = projectsState
  /\ sleepGap[2] # 0 /\ now > sleepGap[2]
  /\ \E x \in ListSet(immediateSaves[1].projects["B"].sessions) :
       x.id = nextId - 2 /\ Interval(sleepGap[2], now, x)
  /\ \E x \in ListSet(immediateSaves[1].globalTimeTracking.sessions) :
       x.id = nextId - 1 /\ x.endTime = now
  /\ ProjectPersisted("A") # {}
  /\ \A x \in ProjectPersisted("A") : x.endTime <= sleepGap[2]

\* the step is a checkpoint tick
CheckpointStep ==
  lastOp' = Op("saveCheckpoints", "none") /\ checkpointTimer' # checkpointTimer

\* C18: a checkpoint tick persists one session [sessionStart, now] for every
\* active interval (entity or global) with more than 1 s elapsed and sets its
\* sessionStart to now; it persists nothing else and leaves the sessionStart
\* of every other interval, every idle flag and lastActivity, the set of
\* tracked entities, the idle timers and the output timestamps unchanged.
CheckpointCutsActive ==
  [][CheckpointStep =>
       /\ DOMAIN trackingState'.activeSessions = DOMAIN trackingState.activeSessions
       /\ \A q \in Projects :
            /\ IF ActiveNow(q) /\ now - SessionStartOf(q) > MIN_DURATION
               THEN /\ \E x \in NewProjectSessions(q) :
                         /\ NewProjectSessions(q) = {x}
                         /\ Interval(SessionStartOf(q), now, x)
                    /\ SessionStartOf(q)' = now
               ELSE /\ NewProjectSessions(q) = {}
                    /\ TrackedNow(q) => SessionStartOf(q)' = SessionStartOf(q)
            /\ TrackedNow(q) =>
                 /\ trackingState'.activeSessions[q].isIdle
                      = trackingState.activeSessions[q].isIdle
                 /\ trackingState'.activeSessions[q].lastActivityTime
                      = trackingState.activeSessions[q].lastActivityTime
       /\ IF GlobalActiveNow /\ now - trackingState.globalSessionStartTime > MIN_DURATION
          THEN /\ \E x \in NewGlobalSessions :
                    /\ NewGlobalSessions = {x}
                    /\ Interval(trackingState.globalSessionStartTime, now, x)
               /\ trackingState'.globalSessionStartTime = now
          ELSE /\ NewGlobalSessions = {}
               /\ trackingState'.globalSessionStartTime = trackingState.globalSessionStartTime
       /\ trackingState'.globalIsIdle = trackingState.globalIsIdle
       /\ trackingState'.globalLastActivityTime = trackingState.globalLastActivityTime
       /\ UNCHANGED <<idleTimers, globalIdleTimer, lastOutputTimes, globalLastOutputTime>>]_vars

\* C18 witness: the checkpoint tick has persisted the session of project A
\* and the global one and reopened both intervals at the tick; A is active as
\* before, with its output timestamp and both idle timers pending
CheckpointDone ==
  /\ lastOp = Op("saveCheckpoints", "none")
  /\ ActiveNow("A") /\ SessionStartOf("A") = now
  /\ trackingState.activeSessions["A"].lastActivityTime < now
  /\ lastOutputTimes["A"] # 0
  /\ idleTimers["A"] > now /\ globalIdleTimer > now
  /\ GlobalActiveNow /\ trackingState.globalSessionStartTime = now
  /\ \E x \in ProjectPersisted("A") :
       x.id = nextId - 2 /\ x.endTime = now /\ x.duration > MIN_DURATION
  /\ \E x \in GlobalPersisted :
       x.id = nextId - 1 /\ x.endTime = now /\ x.duration > MIN_DURATION

\* the step is a read of the archive of a month whose file is missing, empty
\* or not JSON
UnreadableRead ==
  /\ opsLeft' # opsLeft
  /\ lastOp'.name \in {"loadArchive", "getArchivedGlobalSessions", "getArchivedProjectSessions"}
  /\ archiveFiles[lastCall'.month].raw # "json"

\* C19: loadArchive on a month whose file is missing, empty or unparseable
\* returns the absent result without raising and caches nothing;
\* getArchivedGlobalSessions and getArchivedProjectSessions return the empty list.
UnreadableIsAbsent ==
  [][UnreadableRead =>
       /\ ~outcome'.raised
       /\ archiveCache' = archiveCache
       /\ ~CacheHas(archiveCache', lastCall'.month)
       /\ lastOp'.name = "loadArchive" => ~outcome'.data.exists
       /\ lastOp'.name # "loadArchive" => outcome'.sessions = <<>>]_vars

\* C19 witness: with another month cached, the sessions of project A were asked
\* for a month whose file is not JSON: the empty list, and the month is not cached
UnreadableReadDone ==
  /\ lastOp = Op("getArchivedProjectSessions", "A")
  /\ archiveFiles[lastCall.month].raw = "corrupt"
  /\ outcome.sessions = <<>> /\ ~outcome.raised
  /\ Len(archiveCache) > 0
  /\ ~CacheHas(archiveCache, lastCall.month)

\* the step is a loadArchive of month m that reads the archive from storage
LoadFromStorage(m) ==
  /\ opsLeft' # opsLeft
  /\ lastOp' = Op("loadArchive", "none")
  /\ lastCall'.month = m
  /\ ~CacheHas(archiveCache, m)
  /\ archiveFiles[m].raw = "json"

\* the step is a loadArchive of a cached month
CacheHit ==
  /\ opsLeft' # opsLeft
  /\ lastOp' = Op("loadArchive", "none")
  /\ CacheHas(archiveCache, lastCall'.month)

\* C20: the cache never holds more than 3 months; a loadArchive that reads a
\* month from storage while 3 are cached evicts exactly one entry, one with
\* the oldest load timestamp, before it adds the month with the time of the
\* load; a cache hit leaves every entry and its timestamp as they are.
CacheEvictsOldest ==
  [][/\ Len(archiveCache') <= 3
     /\ \A m \in Months :
          (LoadFromStorage(m) /\ Len(archiveCache) = 3) =>
            \E i \in 1..3 :
              /\ \A j \in 1..3 : archiveCache[i].loadedAt <= archiveCache[j].loadedAt
              /\ archiveCache'
                   = Append(RemoveAt(archiveCache, i),
                            [key |-> m, data |-> archiveFiles[m], loadedAt |-> now'])
     /\ CacheHit => archiveCache' = archiveCache]_vars

\* C20 witness: a fourth month has been loaded from storage, one of the three
\* cached months was evicted for it, and the entries left were loaded later
\* than the first load
CacheEvicted ==
  /\ lastOp = Op("loadArchive", "none")
  /\ outcome.dropped # {}
  /\ Len(archiveCache) = 3
  /\ archiveCache[3].key = lastCall.month /\ archiveCache[3].loadedAt = now
  /\ archiveCache[1].loadedAt > StartTime
  /\ archiveCache[1].loadedAt < archiveCache[3].loadedAt

\* the step is an input (recordActivity or startTracking) on project e
InputOn(e) ==
  /\ opsLeft' # opsLeft
  /\ lastOp' \in {Op("recordActivity", e), Op("startTracking", e)}

NoneActive == \A q \in Projects : ~ActiveNow(q)

\* C21: when project e is idle and no project is active, an input on e
\* (recordActivity or startTracking) leaves the global interval active with
\* sessionStart = now.
ResumeRestartsGlobal ==
  [][\A e \in Projects :
       (InputOn(e) /\ IdleNow(e) /\ NoneActive) =>
         /\ GlobalActiveNow'
         /\ trackingState'.globalSessionStartTime = now]_vars

\* C22: after init, whenever no timer callback is pending, the global interval
\* is active (sessionStart set, not idle) if and only if at least one project
\* is active.
GlobalFollowsProjects ==
  (initialized /\ NoTimerDue) => (GlobalActiveNow <=> ~NoneActive)


\* the shape of a persisted session
SessionShape(x) ==
  /\ x.duration = x.endTime - x.startTime
  /\ x.endTime >= x.startTime
  /\ 0 < x.duration
  /\ x.duration <= DayMs

\* a step changes no session that was persisted before it
PersistedSessionsKept == [][AllPersisted \subseteq AllPersisted']_vars

\* C23: every persisted session has duration = endTime - startTime,
\* endTime >= startTime and 0 < duration <= 24 h, and no two persisted
\* records carry the same id with different contents.
PersistedSessionsSound ==
  /\ \A x \in AllPersisted : SessionShape(x)
  /\ \A x \in AllPersisted : \A y \in AllPersisted : x.id = y.id => x = y

\* the deadline computed by a firing that finds output less than 2 minutes old
Rearmed(lastOutput) ==
  now + (OUTPUT_IDLE_TIMEOUT - (now - lastOutput)) + RESCHEDULE_EPSILON

\* the firing of the idle timeout of an active project, and of the global one
IdleTimeoutFires ==
  /\ \A q \in Projects :
       (lastOp' = Op("checkAndPauseTracking", q) /\ ActiveNow(q)) =>
         IF now - lastOutputTimes[q] < OUTPUT_IDLE_TIMEOUT
         THEN /\ ActiveNow(q)'
              /\ SessionStartOf(q)' = SessionStartOf(q)
              /\ idleTimers'[q] = Rearmed(lastOutputTimes[q])
         ELSE IdleNow(q)'
  /\ (lastOp' = Op("checkAndPauseGlobalTimer", "none") /\ GlobalActiveNow) =>
       IF now - globalLastOutputTime < OUTPUT_IDLE_TIMEOUT
       THEN /\ GlobalActiveNow'
            /\ trackingState'.globalSessionStartTime = trackingState.globalSessionStartTime
            /\ globalIdleTimer' = Rearmed(globalLastOutputTime)
       ELSE /\ ~GlobalActiveNow'
            /\ trackingState'.globalIsIdle

\* the latest instant at which the pending idle timeout of a project can
\* still find its output recent, and the timer ticks that reach it
LatestFiring(projectId) ==
  LET graceEnd == lastOutputTimes[projectId] + OUTPUT_IDLE_TIMEOUT + RESCHEDULE_EPSILON
  IN IF idleTimers[projectId] > graceEnd THEN idleTimers[projectId] ELSE graceEnd

TicksUntil(deadline) == (deadline - now) \div HEARTBEAT_INTERVAL + 5

NoFurtherSignal(projectId) ==
  /\ ActiveNow(projectId)
  /\ opsLeft = 0
  /\ ticksLeft >= TicksUntil(LatestFiring(projectId))

\* C24: a firing of the idle timeout of an active project (or of the global
\* interval) that finds the last output less than 2 minutes old leaves it
\* active and re-arms the timeout (2 min - time since the output) + 100 ms
\* ahead, and any other firing pauses it; so an active project that gets no
\* further input or output is eventually paused.
IdleTimeoutPauses ==
  /\ [][IdleTimeoutFires]_vars
  /\ \A q \in Projects : NoFurtherSignal(q) ~> IdleNow(q)

\* C24 witness: the idle timeout of A found recent output 15 minutes after the
\* last input, was re-armed, and has now paused A at the re-armed deadline
DeferredThenPaused ==
  /\ lastOp = Op("checkAndPauseTracking", "A")
  /\ IdleNow("A")
  /\ opsLeft = 0
  /\ lastOutputTimes["A"] # 0
  /\ now = lastOutputTimes["A"] + OUTPUT_IDLE_TIMEOUT + RESCHEDULE_EPSILON
  /\ now > StartTime + IDLE_TIMEOUT

\* the time of the most recent input (start, resume or recordActivity) on a
\* tracked project: without sleep or date change nothing else sets lastActivityTime
LastInput(projectId) == trackingState.activeSessions[projectId].lastActivityTime

\* the idle timeout of a project pauses it
ProjectTimeoutPauses(projectId) ==
  /\ lastOp' = Op("checkAndPauseTracking", projectId)
  /\ ActiveNow(projectId)
  /\ ~ActiveNow(projectId)'

\* the global idle timeout pauses the global interval
GlobalTimeoutPauses ==
  /\ lastOp' = Op("checkAndPauseGlobalTimer", "none")
  /\ GlobalActiveNow
  /\ ~GlobalActiveNow'

\* a project is not paused by its idle timeout earlier than 15 minutes after
\* its most recent input, and an input on it arms its timeout 15 minutes ahead
ProjectPauseNotEarly ==
  [][\A q \in Projects :
       /\ ProjectTimeoutPauses(q) => now - LastInput(q) >= IDLE_TIMEOUT
       /\ (InputOn(q) /\ ActiveNow(q)' /\ trackingState' # trackingState) =>
            idleTimers'[q] = now + IDLE_TIMEOUT]_vars

\* C25: the idle timeout pauses no project earlier than 15 minutes after its
\* most recent input, the global idle timeout does not pause the global
\* interval earlier than 15 minutes after the most recent input on any
\* project, and recordActivity on an active project re-arms both timeouts
\* 15 minutes ahead.
PauseNotEarly ==
  [][/\ \A q \in Projects :
          ProjectTimeoutPauses(q) => now - LastInput(q) >= IDLE_TIMEOUT
     /\ GlobalTimeoutPauses =>
          \A q \in Projects : TrackedNow(q) => now - LastInput(q) >= IDLE_TIMEOUT
     /\ \A q \in Projects :
          (lastOp' = Op("recordActivity", q) /\ opsLeft' # opsLeft /\ ActiveNow(q)) =>
            /\ idleTimers'[q] = now + IDLE_TIMEOUT
            /\ globalIdleTimer' = now + IDLE_TIMEOUT]_vars

\* stopTracking(e) is called on an active project e
StopOfActive(e) ==
  /\ lastOp' = Op("stopTracking", e)
  /\ opsLeft' # opsLeft
  /\ ActiveNow(e)

\* the runtime state of e is gone and that of every other project is untouched
StopRemovesOnly(e) ==
  /\ ~TrackedNow(e)'
  /\ idleTimers'[e] = 0
  /\ lastOutputTimes'[e] = 0
  /\ \A q \in Projects \ {e} :
       /\ TrackedNow(q)' <=> TrackedNow(q)
       /\ TrackedNow(q) =>
            trackingState'.activeSessions[q] = trackingState.activeSessions[q]
       /\ idleTimers'[q] = idleTimers[q]
       /\ NewProjectSessions(q) = {}

\* the global interval is stopped and its idle timer cancelled
GlobalStopped ==
  /\ ~GlobalActiveNow'
  /\ trackingState'.globalSessionStartTime = 0
  /\ globalIdleTimer' = 0

GlobalUntouched ==
  /\ trackingState'.globalSessionStartTime = trackingState.globalSessionStartTime
  /\ trackingState'.globalIsIdle = trackingState.globalIsIdle
  /\ trackingState'.globalLastActivityTime = trackingState.globalLastActivityTime
  /\ globalIdleTimer' = globalIdleTimer
  /\ NewGlobalSessions = {}

OthersActive(e) == \E q \in Projects \ {e} : ActiveNow(q)

\* C26: stopTracking(e) on an active e persists one session
\* [sessionStart, now], removes e's interval, idle timer and output timestamp,
\* leaves every other project's interval and idle timer unchanged, and stops
\* the global interval, persisting its trailing portion and cancelling its idle
\* timer, only when no project remains active; otherwise the global interval
\* and its timer are unchanged.
StopTrackingFrameAlways ==
  [][\A e \in Projects :
       StopOfActive(e) =>
         /\ \E x \in NewProjectSessions(e) :
              /\ NewProjectSessions(e) = {x}
              /\ Interval(SessionStartOf(e), now, x)
         /\ StopRemovesOnly(e)
         /\ IF OthersActive(e) THEN GlobalUntouched
            ELSE /\ GlobalStopped
                 /\ GlobalActiveNow =>
                      \E x \in NewGlobalSessions :
                        /\ NewGlobalSessions = {x}
                        /\ Interval(trackingState.globalSessionStartTime, now, x)]_vars

\* C26 amended: as stated, except that the session of e, and the trailing
\* portion of the global interval, are persisted only when longer than 1 s; a
\* shorter one is dropped, and a global interval that is not active when the
\* last active project stops is reset without a session.
StopTrackingFrame ==
  [][\A e \in Projects :
       StopOfActive(e) =>
         /\ IF now - SessionStartOf(e) > MIN_DURATION
            THEN \E x \in NewProjectSessions(e) :
                   /\ NewProjectSessions(e) = {x}
                   /\ Interval(SessionStartOf(e), now, x)
            ELSE NewProjectSessions(e) = {}
         /\ StopRemovesOnly(e)
         /\ IF OthersActive(e) THEN GlobalUntouched
            ELSE /\ GlobalStopped
                 /\ IF /\ GlobalActiveNow
                       /\ now - trackingState.globalSessionStartTime > MIN_DURATION
                    THEN \E x \in NewGlobalSessions :
                           /\ NewGlobalSessions = {x}
                           /\ Interval(trackingState.globalSessionStartTime, now, x)
                    ELSE NewGlobalSessions = {}]_vars

\* C26 witness: A has just been stopped while B is active; A's session ends now,
\* A's runtime state is gone, and the global interval runs on with its timer
StoppedOneOfTwo ==
  /\ lastOp = Op("stopTracking", "A")
  /\ ~TrackedNow("A")
  /\ idleTimers["A"] = 0
  /\ ActiveNow("B")
  /\ idleTimers["B"] > now
  /\ GlobalActiveNow
  /\ globalIdleTimer > now
  /\ \E x \in ProjectPersisted("A") : x.endTime = now /\ x.id = nextId - 1

\* a midnight-check tick that detects a change of month
MonthChangeTick ==
  /\ MidnightDetected
  /\ initialized
  /\ MonthOf(lastKnownDate * DayMs) # MonthOf(now)

\* x stands in list before every session of moved that the list holds
StandsBefore(list, x, moved) ==
  \E i \in 1..Len(list) :
    /\ list[i] = x
    /\ \A y \in moved : \E j \in (i + 1)..Len(list) : list[j] = y

\* the sessions of a live list that the archival pass moves away
PastIn(list) == {y \in ListSet(list) : MonthOf(y.startTime) # MonthOf(now)}

\* the pre-midnight session x of an interval went to the old month's archive
\* list archived, ahead of the sessions moved from the live list, and is
\* neither in the live list nor in the new month's archive
ArchivedAtSplit(x, live, liveAfter, archived) ==
  /\ StandsBefore(archived, x, PastIn(live))
  /\ x \notin ListSet(liveAfter)
  /\ \A list \in ArchiveLists(MonthOf(now))' : x \notin ListSet(list)

\* C27: on a midnight tick that detects a month change the split is done
\* before the archival pass: the pre-midnight session of each active interval
\* is in the old month's archive, ahead of the sessions the pass moves there,
\* and in neither the live list nor the new month's archive; the interval is
\* reopened at midnight, and every session that starts in the current month
\* is persisted to the live list.
MonthChangeSplitFirst ==
  [][/\ MonthChangeTick =>
          LET midnightTs == MidnightOf(now)
              old == MonthOf(lastKnownDate * DayMs)
          IN /\ \A q \in Projects :
                  (ActiveNow(q) /\ midnightTs - SessionStartOf(q) > MIN_DURATION) =>
                    /\ \E x \in NewProjectSessions(q) :
                         /\ NewProjectSessions(q) = {x}
                         /\ Interval(SessionStartOf(q), midnightTs, x)
                         /\ q \in DOMAIN archiveFiles'[old].projectSessions
                         /\ ArchivedAtSplit(x, projectsState.projects[q].sessions,
                                            projectsState'.projects[q].sessions,
                                            archiveFiles'[old].projectSessions[q])
                    /\ ActiveNow(q)'
                    /\ SessionStartOf(q)' = midnightTs
             /\ (/\ GlobalActiveNow
                 /\ midnightTs - trackingState.globalSessionStartTime > MIN_DURATION) =>
                  /\ \E x \in NewGlobalSessions :
                       /\ NewGlobalSessions = {x}
                       /\ Interval(trackingState.globalSessionStartTime, midnightTs, x)
                       /\ ArchivedAtSplit(x, projectsState.globalTimeTracking.sessions,
                                          projectsState'.globalTimeTracking.sessions,
                                          archiveFiles'[old].globalSessions)
                  /\ GlobalActiveNow'
                  /\ trackingState'.globalSessionStartTime = midnightTs
     /\ \A q \in Projects : \A x \in NewProjectSessions(q) :
          MonthOf(x.startTime) = MonthOf(now) =>
            x \in ListSet(projectsState'.projects[q].sessions)
     /\ \A x \in NewGlobalSessions :
          MonthOf(x.startTime) = MonthOf(now) =>
            x \in ListSet(projectsState'.globalTimeTracking.sessions)]_vars

\* C27 witness: the month-change tick has just run with A active and a stored
\* session of the old month in the live lists; the old month's archive holds
\* the session cut at midnight first and the stored session after it, the
\* live lists are empty and A runs on from midnight
SplitArchivedFirst ==
  /\ lastOp = Op("checkMidnightReset", "none")
  /\ MonthOf(now) = EpochMonth + 1
  /\ lastKnownDate = DayOf(now)
  /\ ActiveNow("A") /\ SessionStartOf("A") = MidnightOf(now)
  /\ "A" \in DOMAIN archiveFiles[EpochMonth].projectSessions
  /\ LET list == archiveFiles[EpochMonth].projectSessions["A"]
     IN /\ Len(list) = 2
        /\ Interval(StartTime, MidnightOf(now), list[1])
        /\ list[2].id > 100
  /\ Len(archiveFiles[EpochMonth].globalSessions) = 2
  /\ Interval(StartTime, MidnightOf(now), archiveFiles[EpochMonth].globalSessions[1])
  /\ projectsState.projects["A"].sessions = <<>>
  /\ projectsState.globalTimeTracking.sessions = <<>>

\* the program state on which the archival pass is about to run: inside
\* initTimeTracking after the sanitizer and the migrator, at a month-change
\* tick after the split, and the current state otherwise
PassInput ==
  IF ~initialized
  THEN migrateGlobalTimeTracking(
         sanitizeTimeTrackingData([Cur EXCEPT !.initialized = TRUE], now), now)
  ELSE IF lastKnownDate # NoDate /\ MonthChangePending
       THEN splitSessionsAtMidnight(Cur, now)
       ELSE Cur

InMonth(list, m) == SelectSeq(list, LAMBDA x : MonthOf(x.startTime) = m)

ArchivedProject(files, m, q) ==
  IF q \in DOMAIN files[m].projectSessions THEN files[m].projectSessions[q] ELSE <<>>

HasPast(c) ==
  \/ InMonth(c.projectsState.globalTimeTracking.sessions, MonthOf(now))
       # c.projectsState.globalTimeTracking.sessions
  \/ \E q \in Projects :
       InMonth(c.projectsState.projects[q].sessions, MonthOf(now))
         # c.projectsState.projects[q].sessions

\* every session of the input is appended
Everything(stored, input) == input

\* the sessions of the input whose id the stored list does not hold
NotYetHeld(stored, input) ==
  SelectSeq(input, LAMBDA x : \A i \in 1..Len(stored) : stored[i].id # x.id)

\* what one pass makes of the state c, when an archive list stored takes the
\* sessions Taken(stored, input) of the sessions input moved to it
PassResult(c, after, Taken(_, _)) ==
  /\ after.projectsState.globalTimeTracking =
       [c.projectsState.globalTimeTracking EXCEPT !.sessions = InMonth(@, MonthOf(now))]
  /\ \A q \in Projects :
       after.projectsState.projects[q] =
         [c.projectsState.projects[q] EXCEPT !.sessions = InMonth(@, MonthOf(now))]
  /\ \A m \in Months :
       IF m = MonthOf(now)
       THEN after.archiveFiles[m] = c.archiveFiles[m]
       ELSE /\ after.archiveFiles[m].globalSessions =
                 readArchiveFromDisk(c.archiveFiles, m).globalSessions
                   \o Taken(readArchiveFromDisk(c.archiveFiles, m).globalSessions,
                            InMonth(c.projectsState.globalTimeTracking.sessions, m))
            /\ \A q \in Projects :
                 ArchivedProject(after.archiveFiles, m, q) =
                   ArchivedProject(c.archiveFiles, m, q)
                     \o Taken(ArchivedProject(c.archiveFiles, m, q),
                              InMonth(c.projectsState.projects[q].sessions, m))
  /\ after.trackingState = c.trackingState
  /\ after.nextId = c.nextId
  /\ ~HasPast(c) => after = c

\* C28 as stated: archivePastMonthSessions keeps in every live list exactly
\* the sessions that start in the current month, in their order, appends
\* every other one to the archive of its own month under the same project (or
\* the global list), and changes nothing else; with no live session outside
\* the current month it changes nothing, so a second pass right after the
\* first changes nothing.
ArchivePassAppendsAll ==
  LET after == archivePastMonthSessions(PassInput, now)
  IN /\ PassResult(PassInput, after, Everything)
     /\ archivePastMonthSessions(after, now) = after

\* C28 amended: as stated, except that a session leaving a live list is
\* appended to the archive list of its month and entity only if that list did
\* not hold a session with its id before the pass; a session whose id the
\* archive list already holds is removed from the live list and not appended.
ArchivePassMoves ==
  LET after == archivePastMonthSessions(PassInput, now)
  IN /\ PassResult(PassInput, after, NotYetHeld)
     /\ archivePastMonthSessions(after, now) = after

\* C28 witness: initTimeTracking has run the pass in the month after the
\* epoch's on a list of project A that held session 101 and session 112, of
\* two earlier months, and on a global list of one session of the current
\* month, with archives that held session 101 for A and session 112 in the
\* global list only: A's live list is empty, the archive of the epoch's month
\* holds 101 once for A and that of the month before has gained 112 for A;
\* the global lists are as they were
PassOnMixedList ==
  /\ lastOp = Op("initTimeTracking", "none")
  /\ MonthOf(now) = EpochMonth + 1
  /\ Len(loadedState.projects["A"].sessions) = 2
  /\ MonthOf(loadedState.projects["A"].sessions[1].startTime) = EpochMonth
  /\ MonthOf(loadedState.projects["A"].sessions[2].startTime) = EpochMonth - 1
  /\ projectsState.projects["A"].sessions = <<>>
  /\ ArchivedProject(archiveFiles, EpochMonth, "A")
       = <<loadedState.projects["A"].sessions[1]>>
  /\ ArchivedProject(archiveFiles, EpochMonth - 1, "A")
       = <<loadedState.projects["A"].sessions[2]>>
  /\ archiveFiles[EpochMonth - 1].globalSessions = <<loadedState.projects["A"].sessions[2]>>
  /\ Len(archiveFiles[EpochMonth].globalSessions) = 1
  /\ Len(loadedState.globalTimeTracking.sessions) = 1
  /\ projectsState.globalTimeTracking.sessions = loadedState.globalTimeTracking.sessions
  /\ MonthOf(projectsState.globalTimeTracking.sessions[1].startTime) = EpochMonth + 1

\* the total duration of the sessions of list that start in the week beginning
\* on day weekStart, and in month m
TimeInWeek(list, weekStart) ==
  SumDurations(SelectSeq(list, LAMBDA x : /\ x.startTime >= weekStart * DayMs
                                          /\ x.startTime < (weekStart + 7) * DayMs))

TimeInMonth(list, m) == SumDurations(InMonth(list, m))

\* C30: after initTimeTracking a stored global record that had no weekTime
\* (monthTime) or no weekStart (monthStart) has weekTime (monthTime) equal to
\* the total duration of its well-formed sessions that start in the current
\* week (month), and its anchor names the current week (month).
MigratedOnInit ==
  [][(/\ lastOp' = Op("initTimeTracking", "none")
      /\ ~initialized
      /\ projectsState.globalTimeTracking.exists) =>
       LET g == projectsState.globalTimeTracking
           after == projectsState'.globalTimeTracking
           kept == SelectSeq(g.sessions, WellFormed)
       IN /\ (g.weekTime = Undefined \/ g.weekStart = NoDate) =>
               /\ after.weekTime = TimeInWeek(kept, getWeekStartString(now))
               /\ after.weekStart = getWeekStartString(now)
          /\ (g.monthTime = Undefined \/ g.monthStart = NoDate) =>
               /\ after.monthTime = TimeInMonth(kept, getMonthString(now))
               /\ after.monthStart = getMonthString(now)]_vars

\* the total duration of a set of sessions
RECURSIVE TotalDuration(_)
TotalDuration(sessions) ==
  IF sessions = {} THEN 0
  ELSE LET x == CHOOSE y \in sessions : TRUE
       IN x.duration + TotalDuration(sessions \ {x})

\* C29: after every emission of a global session, monthTime is the total
\* duration of the persisted global sessions that start in the month named
\* by monthStart, and weekTime that of those that start in the week named by
\* weekStart.
PeriodCountersExact ==
  [][NewGlobalSessions # {} =>
       LET g == projectsState'.globalTimeTracking
       IN /\ g.monthTime =
               TotalDuration({x \in GlobalPersisted' : MonthOf(x.startTime) = g.monthStart})
          /\ g.weekTime =
               TotalDuration({x \in GlobalPersisted' :
                                getWeekStartString(x.startTime) = g.weekStart})]_vars

\* a record as the sanitizer run at instant t must leave it: a last active
\* date more than one day after t is replaced by null with todayTime 0, any
\* other last active date is kept
FutureDateRepaired(old, new, t) ==
  IF FutureDate(old.lastActiveDate, t)
  THEN new.lastActiveDate = NoDate /\ new.todayTime = 0
  ELSE new.lastActiveDate = old.lastActiveDate

\* C31: after sanitizeTimeTrackingData no tracking record, neither a project's
\* nor the global one, has a lastActiveDate more than 1 day in the future: such
\* a value is replaced by null and the record's todayTime is set to 0, while a
\* lastActiveDate at most 1 day ahead is left unchanged.
FutureDatesRemoved ==
  [][(~initialized /\ initialized') =>
       /\ \A q \in Projects :
            FutureDateRepaired(projectsState.projects[q], projectsState'.projects[q], now)
       /\ FutureDateRepaired(projectsState.globalTimeTracking,
                             projectsState'.globalTimeTracking, now)]_vars

\* the sanitizer's local copies differ from the stored records
Repaired(c, t) ==
  \/ \E q \in Projects :
       SanitizeTracking(c.projectsState.projects[q], t) # c.projectsState.projects[q]
  \/ SanitizeGlobal(c.projectsState.globalTimeTracking) # c.projectsState.globalTimeTracking

\* C32: sanitizeTimeTrackingData, in the first call of initTimeTracking and
\* in every later one, performs exactly one replace-and-save of the live
\* snapshot when it repaired anything, in any number of projects and/or the
\* global record, and none when it repaired nothing; run again immediately
\* afterwards it performs no write.
SanitizeSavesOnce ==
  [][InitStep =>
       LET c == [Cur EXCEPT !.initialized = TRUE]
           s == sanitizeTimeTrackingData(c, now)
       IN /\ sanitizeSaves(c, now) = IF Repaired(c, now) THEN 1 ELSE 0
          /\ Repaired(c, now) => s.projectsState # c.projectsState
          /\ sanitizeSaves(s, now) = 0]_vars

\* C32 witness: initTimeTracking has run on a snapshot in which a future last
\* active date was repaired in project A and kept in the global record
SanitizedFutureDate ==
  /\ lastOp = Op("initTimeTracking", "none")
  /\ projectsState.projects["A"].lastActiveDate = NoDate
  /\ projectsState.globalTimeTracking.lastActiveDate = DayOf(StartTime) + 3

\* the steps of the idle timeouts, output events, checkpoints, sleep/wake
\* checks and midnight checks
TimerOrOutputStep ==
  lastOp'.name \in {"checkAndPauseTracking", "checkAndPauseGlobalTimer", "recordOutputActivity",
                    "saveCheckpoints", "checkSleepWake", "checkMidnightReset"}

CutOrSplitStep == lastOp'.name \in {"checkSleepWake", "checkMidnightReset"}

\* C33: idle timeouts, output events, checkpoints, sleep/wake cuts and midnight
\* splits never add an entity to or remove one from the tracked set, and
\* sleep/wake cuts and midnight splits leave every idle interval (sessionStart,
\* lastActivity, idle), the global one included, unchanged.
TrackedSetKept ==
  [][/\ TimerOrOutputStep =>
          DOMAIN trackingState'.activeSessions = DOMAIN trackingState.activeSessions
     /\ CutOrSplitStep =>
          /\ \A q \in Projects :
               IdleNow(q) =>
                 trackingState'.activeSessions[q] = trackingState.activeSessions[q]
          /\ trackingState.globalIsIdle =>
               /\ trackingState'.globalIsIdle
               /\ trackingState'.globalSessionStartTime = trackingState.globalSessionStartTime
               /\ trackingState'.globalLastActivityTime
                    = trackingState.globalLastActivityTime]_vars

\* C33 witness: after a system sleep the midnight check has split the active
\* interval of B while A is idle
SplitBesideIdle ==
  /\ lastOp.name = "checkMidnightReset"
  /\ sleepGap # <<0, 0>>
  /\ IdleNow("A")
  /\ ActiveNow("B")
  /\ SessionStartOf("B") = MidnightOf(now)

\* every well-formed session that has left the list before stands in the
\* archived list of its month
MovedToArchive(before, after, archived) ==
  \A x \in ListSet(before) \ ListSet(after) :
    WellFormed(x) => x \in ListSet(archived[MonthOf(x.startTime)])

\* C34: every session removed from a live list by the archival pass is present
\* in the archive of its month afterwards, also when the archive write fails or
\* the existing archive file cannot be read: no session is dropped from both
\* the live list and the archive.
RemovedSessionsArchived ==
  [][lastOp'.name # "restart" =>
       /\ MovedToArchive(projectsState.globalTimeTracking.sessions,
                         projectsState'.globalTimeTracking.sessions,
                         [m \in Months |-> archiveFiles'[m].globalSessions])
       /\ \A q \in Projects :
            MovedToArchive(projectsState.projects[q].sessions,
                           projectsState'.projects[q].sessions,
                           [m \in Months |-> ArchivedProject(archiveFiles', m, q)])]_vars

\* initTimeTracking runs again after a restart, and the archive writes of both
\* runs succeeded
RerunStep ==
  /\ lastOp.name = "restart"
  /\ lastOp'.name = "initTimeTracking"
  /\ lastCall.fault = "none"
  /\ lastCall'.fault = "none"

\* the sessions of a stored list that the archival pass at time t moves out
ToArchive(list, t) ==
  {x \in ListSet(list) : WellFormed(x) /\ MonthOf(x.startTime) # MonthOf(t)}

\* C36: if the process dies after the archival pass has appended the past-month
\* sessions to the archives and before the reduced live snapshot is saved, the
\* pass of the next initTimeTracking on the old live snapshot leaves every such
\* session exactly once in its archive and none in the live lists.
RerunArchivesOnce ==
  [][RerunStep =>
       /\ \A x \in ToArchive(loadedState.globalTimeTracking.sessions, now) :
            /\ Count(archiveFiles'[MonthOf(x.startTime)].globalSessions, x) = 1
            /\ Count(projectsState'.globalTimeTracking.sessions, x) = 0
       /\ \A q \in Projects : \A x \in ToArchive(loadedState.projects[q].sessions, now) :
            /\ Count(ArchivedProject(archiveFiles', MonthOf(x.startTime), q), x) = 1
            /\ Count(projectsState'.projects[q].sessions, x) = 0]_vars

\* the ids of the sessions stored in the archive file of month m, per list
StoredIds(files, m) ==
  [global |-> SessionIds(files[m].globalSessions),
   projects |-> [q \in Projects |-> SessionIds(ArchivedProject(files, m, q))]]

\* C35: the set of session ids stored in a month's archive only grows: after
\* any appendToArchive call, whether its read of the existing file or its write
\* succeeds or fails, every session stored in that archive before the call is
\* still stored in it.
ArchiveOnlyGrows ==
  [][lastOp'.name = "appendToArchive" =>
       \A m \in Months :
         /\ StoredIds(archiveFiles, m).global \subseteq StoredIds(archiveFiles', m).global
         /\ \A q \in Projects :
              StoredIds(archiveFiles, m).projects[q]
                \subseteq StoredIds(archiveFiles', m).projects[q]]_vars

\* the call before was a write of the month's archive file that succeeded
WriteSucceeded ==
  /\ lastOp.name \in {"appendToArchive", "writeArchive"}
  /\ lastCall.fault = "none"

\* C37: loadArchive(y, m) never returns content older than the month's archive
\* file: after a successful write of that file through appendToArchive or
\* writeArchive, the next loadArchive(y, m) returns the written content, not a
\* previously cached copy.
LoadReturnsWritten ==
  [][(WriteSucceeded /\ lastOp'.name = "loadArchive" /\ lastCall'.month = lastCall.month) =>
       outcome'.data = archiveFiles[lastCall.month]]_vars

\* the part of the running global interval that lies in the week of now
RunningInWeek ==
  LET monday == getWeekStartString(now)
      from == IF DayOf(trackingState.globalSessionStartTime) >= monday
              THEN trackingState.globalSessionStartTime ELSE monday * DayMs
  IN IF GlobalActiveNow /\ now > from THEN now - from ELSE 0

\* C38: getGlobalTimes().week equals the total duration of all global sessions
\* that started in the current week (Monday 00:00 onward) plus the running part
\* of the active global interval clipped to the week, also in a week that
\* contains a month boundary, after the archival pass or a close has moved the
\* earlier month's sessions out of the live list.
WeekTimeExact ==
  initialized =>
    getGlobalTimes(Cur, now).week =
      TotalDuration({x \in GlobalPersisted :
                       getWeekStartString(x.startTime) = getWeekStartString(now)})
        + RunningInWeek

\* C39: in every reachable state each tracked entity's interval has idle = true
\* exactly when its sessionStart is absent, and the global interval is never
\* idle with a sessionStart set; isTracking(e) is truthy and e is counted by
\* getActiveProjectCount exactly when e is tracked with sessionStart set and
\* idle = false.
IdleIffNoSessionStart ==
  /\ \A q \in Projects :
       TrackedNow(q) =>
         (trackingState.activeSessions[q].isIdle <=> SessionStartOf(q) = 0)
  /\ ~(trackingState.globalIsIdle /\ trackingState.globalSessionStartTime # 0)
  /\ \A q \in Projects :
       ActiveNow(q) <=> (TrackedNow(q) /\ SessionStartOf(q) # 0 /\ ~IdleNow(q))
  /\ getActiveProjectCount
       = Cardinality({q \in Projects : TrackedNow(q) /\ SessionStartOf(q) # 0 /\ ~IdleNow(q)})

\* C39 witness: A is tracked and idle, B is tracked and active, and the global
\* interval runs
IdleBesideActive ==
  /\ IdleNow("A")
  /\ SessionStartOf("A") = 0
  /\ ActiveNow("B")
  /\ GlobalActiveNow
  /\ getActiveProjectCount = 1
====
